---- MODULE Spec2Model ----
(***************************************************************************)
(* State-machine model of tarefa3-todo-manager/todoManager.js: one         *)
(* TodoManager (task array, next-id counter, CodeGenerator counters), the  *)
(* wall clock read by `new Date()`, and the public operations as actions.  *)
(*                                                                         *)
(* JavaScript values are records [k, n, s]: k is the kind of value, n its  *)
(* integer part, s its characters (a string is a sequence of one-character *)
(* strings, so that trim, toUpperCase and the regular expressions are      *)
(* computed character by character). A character up to U+00FF is itself;   *)
(* a character above U+00FF, and GRAVE ACCENT, which a string of this      *)
(* language cannot hold, is written by its code point, as "U+017F"; a      *)
(* character above U+FFFF is its two surrogate code units.                 *)
(***************************************************************************)
EXTENDS Integers, Sequences, FiniteSets, TLC

\* ------------------------------------------------------------- bounds

\* Longest sequence of steps explored on one manager: a step is a call or a
\* tick of the clock.
MaxSteps == 4
\* Largest value the clock reaches (milliseconds since the manager was built).
MaxTime == 1
\* Largest task id passed as an argument (0, never issued, is always tried).
MaxIdArg == 2

\* ---------------------------------------------------------- JS values

Undef == [k |-> "undefined", n |-> 0, s |-> <<>>]
Null == [k |-> "null", n |-> 0, s |-> <<>>]
\* A number with an integer value.
Num(i) == [k |-> "number", n |-> i, s |-> <<>>]
\* A number without an integer value: i + 0.5.
Frac(i) == [k |-> "fraction", n |-> i, s |-> <<>>]
NaN == [k |-> "nan", n |-> 0, s |-> <<>>]
Str(cs) == [k |-> "string", n |-> 0, s |-> cs]
DateAt(t) == [k |-> "date", n |-> t, s |-> <<>>]

\* typeof v
TypeOf(v) ==
  CASE v.k = "undefined" -> "undefined"
    [] v.k \in {"number", "fraction", "nan"} -> "number"
    [] v.k = "string" -> "string"
    [] OTHER -> "object"

\* v == null (true of null and undefined): the test behind `??` and `!= null`.
IsNullish(v) == v.k \in {"undefined", "null"}

\* ToBoolean(v) is false
IsFalsy(v) ==
  \/ v.k \in {"undefined", "null", "nan"}
  \/ v.k = "number" /\ v.n = 0
  \/ v.k = "string" /\ v.s = <<>>

\* a ?? b
Coalesce(a, b) == IF IsNullish(a) THEN b ELSE a

\* ------------------------------------------------------------ strings

LowerSet ==
  {"a", "b", "c", "d", "e", "f", "g", "h", "i", "j", "k", "l", "m",
   "n", "o", "p", "q", "r", "s", "t", "u", "v", "w", "x", "y", "z"}
UpperSet ==
  {"A", "B", "C", "D", "E", "F", "G", "H", "I", "J", "K", "L", "M",
   "N", "O", "P", "Q", "R", "S", "T", "U", "V", "W", "X", "Y", "Z"}
DigitSet == {"0", "1", "2", "3", "4", "5", "6", "7", "8", "9"}
Digits == <<"0", "1", "2", "3", "4", "5", "6", "7", "8", "9">>

\* The upper-case letter of each lower-case one, and the reverse.
UpperOf ==
  [a |-> "A", b |-> "B", c |-> "C", d |-> "D", e |-> "E", f |-> "F", g |-> "G",
   h |-> "H", i |-> "I", j |-> "J", k |-> "K", l |-> "L", m |-> "M", n |-> "N",
   o |-> "O", p |-> "P", q |-> "Q", r |-> "R", s |-> "S", t |-> "T", u |-> "U",
   v |-> "V", w |-> "W", x |-> "X", y |-> "Y", z |-> "Z"]
LowerOf ==
  [A |-> "a", B |-> "b", C |-> "c", D |-> "d", E |-> "e", F |-> "f", G |-> "g",
   H |-> "h", I |-> "i", J |-> "j", K |-> "k", L |-> "l", M |-> "m", N |-> "n",
   O |-> "o", P |-> "p", Q |-> "q", R |-> "r", S |-> "s", T |-> "t", U |-> "u",
   V |-> "v", W |-> "w", X |-> "x", Y |-> "y", Z |-> "z"]

\* The upper case of the letters of U+00C0..U+00FE that have one in that
\* range, and the reverse.
LatinUpperOf ==
  ("à" :> "À") @@ ("á" :> "Á") @@ ("â" :> "Â") @@ ("ã" :> "Ã") @@ ("ä" :> "Ä")
    @@ ("å" :> "Å") @@ ("æ" :> "Æ") @@ ("ç" :> "Ç") @@ ("è" :> "È") @@ ("é" :> "É")
    @@ ("ê" :> "Ê") @@ ("ë" :> "Ë") @@ ("ì" :> "Ì") @@ ("í" :> "Í") @@ ("î" :> "Î")
    @@ ("ï" :> "Ï") @@ ("ð" :> "Ð") @@ ("ñ" :> "Ñ") @@ ("ò" :> "Ò") @@ ("ó" :> "Ó")
    @@ ("ô" :> "Ô") @@ ("õ" :> "Õ") @@ ("ö" :> "Ö") @@ ("ø" :> "Ø") @@ ("ù" :> "Ù")
    @@ ("ú" :> "Ú") @@ ("û" :> "Û") @@ ("ü" :> "Ü") @@ ("ý" :> "Ý") @@ ("þ" :> "Þ")
LatinLowerOf ==
  ("À" :> "à") @@ ("Á" :> "á") @@ ("Â" :> "â") @@ ("Ã" :> "ã") @@ ("Ä" :> "ä")
    @@ ("Å" :> "å") @@ ("Æ" :> "æ") @@ ("Ç" :> "ç") @@ ("È" :> "è") @@ ("É" :> "é")
    @@ ("Ê" :> "ê") @@ ("Ë" :> "ë") @@ ("Ì" :> "ì") @@ ("Í" :> "í") @@ ("Î" :> "î")
    @@ ("Ï" :> "ï") @@ ("Ð" :> "ð") @@ ("Ñ" :> "ñ") @@ ("Ò" :> "ò") @@ ("Ó" :> "ó")
    @@ ("Ô" :> "ô") @@ ("Õ" :> "õ") @@ ("Ö" :> "ö") @@ ("Ø" :> "ø") @@ ("Ù" :> "ù")
    @@ ("Ú" :> "ú") @@ ("Û" :> "û") @@ ("Ü" :> "ü") @@ ("Ý" :> "ý") @@ ("Þ" :> "þ")
LatinLowerSet == DOMAIN LatinUpperOf
LatinUpperSet == DOMAIN LatinLowerOf

\* WhiteSpace and LineTerminator, which String.prototype.trim strips: TAB,
\* LF, VT, FF, CR, SPACE, NO-BREAK SPACE, and above U+00FF the space
\* separators, LINE and PARAGRAPH SEPARATOR and the byte-order mark.
WhiteSpaceSet ==
  {"\t", "\n", "", "\f", "\r", " ", " ",
   "U+1680", "U+2000", "U+2001", "U+2002", "U+2003", "U+2004", "U+2005",
   "U+2006", "U+2007", "U+2008", "U+2009", "U+200A", "U+2028", "U+2029",
   "U+202F", "U+205F", "U+3000", "U+FEFF"}

IsSpace(c) == c \in WhiteSpaceSet
IsUpperAZ(c) == c \in UpperSet
IsDigit(c) == c \in DigitSet

\* ------------------------------------------------ case mapping data
\*
\* The case mappings and the character properties behind toUpperCase and
\* toLowerCase, for the code units above U+00FF: the mappings of
\* UnicodeData and SpecialCasing that depend on no language, and the
\* properties Cased and Case_Ignorable of DerivedCoreProperties, all as of
\* Unicode 17.0. A character above U+FFFF is the pair of its surrogate code
\* units.

\* A table is a sequence of entries, each a key followed by what it is mapped
\* to. The keys of a table of entries of n elements, the key the first k:
KeysOf(table, n, k) ==
  {SubSeq(table, n * (i - 1) + 1, n * (i - 1) + k) : i \in 1..(Len(table) \div n)}

\* The rest of the entry of `table` with key `key`.
EntryOf(table, n, key) ==
  LET k == Len(key)
      i == CHOOSE e \in 1..(Len(table) \div n) :
             SubSeq(table, n * (e - 1) + 1, n * (e - 1) + k) = key
  IN SubSeq(table, n * (i - 1) + k + 1, n * i)

\* toUpperCase of the code units that give one code unit: each followed by
\* the code unit it gives.
UpperAboveTable ==
  <<"U+0101", "U+0100", "U+0103", "U+0102", "U+0105", "U+0104",
   "U+0107", "U+0106", "U+0109", "U+0108", "U+010B", "U+010A",
   "U+010D", "U+010C", "U+010F", "U+010E", "U+0111", "U+0110",
   "U+0113", "U+0112", "U+0115", "U+0114", "U+0117", "U+0116",
   "U+0119", "U+0118", "U+011B", "U+011A", "U+011D", "U+011C",
   "U+011F", "U+011E", "U+0121", "U+0120", "U+0123", "U+0122",
   "U+0125", "U+0124", "U+0127", "U+0126", "U+0129", "U+0128",
   "U+012B", "U+012A", "U+012D", "U+012C", "U+012F", "U+012E",
   "U+0131", "I", "U+0133", "U+0132", "U+0135", "U+0134",
   "U+0137", "U+0136", "U+013A", "U+0139", "U+013C", "U+013B",
   "U+013E", "U+013D", "U+0140", "U+013F", "U+0142", "U+0141",
   "U+0144", "U+0143", "U+0146", "U+0145", "U+0148", "U+0147",
   "U+014B", "U+014A", "U+014D", "U+014C", "U+014F", "U+014E",
   "U+0151", "U+0150", "U+0153", "U+0152", "U+0155", "U+0154",
   "U+0157", "U+0156", "U+0159", "U+0158", "U+015B", "U+015A",
   "U+015D", "U+015C", "U+015F", "U+015E", "U+0161", "U+0160",
   "U+0163", "U+0162", "U+0165", "U+0164", "U+0167", "U+0166",
   "U+0169", "U+0168", "U+016B", "U+016A", "U+016D", "U+016C",
   "U+016F", "U+016E", "U+0171", "U+0170", "U+0173", "U+0172",
   "U+0175", "U+0174", "U+0177", "U+0176", "U+017A", "U+0179",
   "U+017C", "U+017B", "U+017E", "U+017D", "U+017F", "S",
   "U+0180", "U+0243", "U+0183", "U+0182", "U+0185", "U+0184",
   "U+0188", "U+0187", "U+018C", "U+018B", "U+0192", "U+0191",
   "U+0195", "U+01F6", "U+0199", "U+0198", "U+019A", "U+023D",
   "U+019B", "U+A7DC", "U+019E", "U+0220", "U+01A1", "U+01A0",
   "U+01A3", "U+01A2", "U+01A5", "U+01A4", "U+01A8", "U+01A7",
   "U+01AD", "U+01AC", "U+01B0", "U+01AF", "U+01B4", "U+01B3",
   "U+01B6", "U+01B5", "U+01B9", "U+01B8", "U+01BD", "U+01BC",
   "U+01BF", "U+01F7", "U+01C5", "U+01C4", "U+01C6", "U+01C4",
   "U+01C8", "U+01C7", "U+01C9", "U+01C7", "U+01CB", "U+01CA",
   "U+01CC", "U+01CA", "U+01CE", "U+01CD", "U+01D0", "U+01CF",
   "U+01D2", "U+01D1", "U+01D4", "U+01D3", "U+01D6", "U+01D5",
   "U+01D8", "U+01D7", "U+01DA", "U+01D9", "U+01DC", "U+01DB",
   "U+01DD", "U+018E", "U+01DF", "U+01DE", "U+01E1", "U+01E0",
   "U+01E3", "U+01E2", "U+01E5", "U+01E4", "U+01E7", "U+01E6",
   "U+01E9", "U+01E8", "U+01EB", "U+01EA", "U+01ED", "U+01EC",
   "U+01EF", "U+01EE", "U+01F2", "U+01F1", "U+01F3", "U+01F1",
   "U+01F5", "U+01F4", "U+01F9", "U+01F8", "U+01FB", "U+01FA",
   "U+01FD", "U+01FC", "U+01FF", "U+01FE", "U+0201", "U+0200",
   "U+0203", "U+0202", "U+0205", "U+0204", "U+0207", "U+0206",
   "U+0209", "U+0208", "U+020B", "U+020A", "U+020D", "U+020C",
   "U+020F", "U+020E", "U+0211", "U+0210", "U+0213", "U+0212",
   "U+0215", "U+0214", "U+0217", "U+0216", "U+0219", "U+0218",
   "U+021B", "U+021A", "U+021D", "U+021C", "U+021F", "U+021E",
   "U+0223", "U+0222", "U+0225", "U+0224", "U+0227", "U+0226",
   "U+0229", "U+0228", "U+022B", "U+022A", "U+022D", "U+022C",
   "U+022F", "U+022E", "U+0231", "U+0230", "U+0233", "U+0232",
   "U+023C", "U+023B", "U+023F", "U+2C7E", "U+0240", "U+2C7F",
   "U+0242", "U+0241", "U+0247", "U+0246", "U+0249", "U+0248",
   "U+024B", "U+024A", "U+024D", "U+024C", "U+024F", "U+024E",
   "U+0250", "U+2C6F", "U+0251", "U+2C6D", "U+0252", "U+2C70",
   "U+0253", "U+0181", "U+0254", "U+0186", "U+0256", "U+0189",
   "U+0257", "U+018A", "U+0259", "U+018F", "U+025B", "U+0190",
   "U+025C", "U+A7AB", "U+0260", "U+0193", "U+0261", "U+A7AC",
   "U+0263", "U+0194", "U+0264", "U+A7CB", "U+0265", "U+A78D",
   "U+0266", "U+A7AA", "U+0268", "U+0197", "U+0269", "U+0196",
   "U+026A", "U+A7AE", "U+026B", "U+2C62", "U+026C", "U+A7AD",
   "U+026F", "U+019C", "U+0271", "U+2C6E", "U+0272", "U+019D",
   "U+0275", "U+019F", "U+027D", "U+2C64", "U+0280", "U+01A6",
   "U+0282", "U+A7C5", "U+0283", "U+01A9", "U+0287", "U+A7B1",
   "U+0288", "U+01AE", "U+0289", "U+0244", "U+028A", "U+01B1",
   "U+028B", "U+01B2", "U+028C", "U+0245", "U+0292", "U+01B7",
   "U+029D", "U+A7B2", "U+029E", "U+A7B0", "U+0345", "U+0399",
   "U+0371", "U+0370", "U+0373", "U+0372", "U+0377", "U+0376",
   "U+037B", "U+03FD", "U+037C", "U+03FE", "U+037D", "U+03FF",
   "U+03AC", "U+0386", "U+03AD", "U+0388", "U+03AE", "U+0389",
   "U+03AF", "U+038A", "U+03B1", "U+0391", "U+03B2", "U+0392",
   "U+03B3", "U+0393", "U+03B4", "U+0394", "U+03B5", "U+0395",
   "U+03B6", "U+0396", "U+03B7", "U+0397", "U+03B8", "U+0398",
   "U+03B9", "U+0399", "U+03BA", "U+039A", "U+03BB", "U+039B",
   "U+03BC", "U+039C", "U+03BD", "U+039D", "U+03BE", "U+039E",
   "U+03BF", "U+039F", "U+03C0", "U+03A0", "U+03C1", "U+03A1",
   "U+03C2", "U+03A3", "U+03C3", "U+03A3", "U+03C4", "U+03A4",
   "U+03C5", "U+03A5", "U+03C6", "U+03A6", "U+03C7", "U+03A7",
   "U+03C8", "U+03A8", "U+03C9", "U+03A9", "U+03CA", "U+03AA",
   "U+03CB", "U+03AB", "U+03CC", "U+038C", "U+03CD", "U+038E",
   "U+03CE", "U+038F", "U+03D0", "U+0392", "U+03D1", "U+0398",
   "U+03D5", "U+03A6", "U+03D6", "U+03A0", "U+03D7", "U+03CF",
   "U+03D9", "U+03D8", "U+03DB", "U+03DA", "U+03DD", "U+03DC",
   "U+03DF", "U+03DE", "U+03E1", "U+03E0", "U+03E3", "U+03E2",
   "U+03E5", "U+03E4", "U+03E7", "U+03E6", "U+03E9", "U+03E8",
   "U+03EB", "U+03EA", "U+03ED", "U+03EC", "U+03EF", "U+03EE",
   "U+03F0", "U+039A", "U+03F1", "U+03A1", "U+03F2", "U+03F9",
   "U+03F3", "U+037F", "U+03F5", "U+0395", "U+03F8", "U+03F7",
   "U+03FB", "U+03FA", "U+0430", "U+0410", "U+0431", "U+0411",
   "U+0432", "U+0412", "U+0433", "U+0413", "U+0434", "U+0414",
   "U+0435", "U+0415", "U+0436", "U+0416", "U+0437", "U+0417",
   "U+0438", "U+0418", "U+0439", "U+0419", "U+043A", "U+041A",
   "U+043B", "U+041B", "U+043C", "U+041C", "U+043D", "U+041D",
   "U+043E", "U+041E", "U+043F", "U+041F", "U+0440", "U+0420",
   "U+0441", "U+0421", "U+0442", "U+0422", "U+0443", "U+0423",
   "U+0444", "U+0424", "U+0445", "U+0425", "U+0446", "U+0426",
   "U+0447", "U+0427", "U+0448", "U+0428", "U+0449", "U+0429",
   "U+044A", "U+042A", "U+044B", "U+042B", "U+044C", "U+042C",
   "U+044D", "U+042D", "U+044E", "U+042E", "U+044F", "U+042F",
   "U+0450", "U+0400", "U+0451", "U+0401", "U+0452", "U+0402",
   "U+0453", "U+0403", "U+0454", "U+0404", "U+0455", "U+0405",
   "U+0456", "U+0406", "U+0457", "U+0407", "U+0458", "U+0408",
   "U+0459", "U+0409", "U+045A", "U+040A", "U+045B", "U+040B",
   "U+045C", "U+040C", "U+045D", "U+040D", "U+045E", "U+040E",
   "U+045F", "U+040F", "U+0461", "U+0460", "U+0463", "U+0462",
   "U+0465", "U+0464", "U+0467", "U+0466", "U+0469", "U+0468",
   "U+046B", "U+046A", "U+046D", "U+046C", "U+046F", "U+046E",
   "U+0471", "U+0470", "U+0473", "U+0472", "U+0475", "U+0474",
   "U+0477", "U+0476", "U+0479", "U+0478", "U+047B", "U+047A",
   "U+047D", "U+047C", "U+047F", "U+047E", "U+0481", "U+0480",
   "U+048B", "U+048A", "U+048D", "U+048C", "U+048F", "U+048E",
   "U+0491", "U+0490", "U+0493", "U+0492", "U+0495", "U+0494",
   "U+0497", "U+0496", "U+0499", "U+0498", "U+049B", "U+049A",
   "U+049D", "U+049C", "U+049F", "U+049E", "U+04A1", "U+04A0",
   "U+04A3", "U+04A2", "U+04A5", "U+04A4", "U+04A7", "U+04A6",
   "U+04A9", "U+04A8", "U+04AB", "U+04AA", "U+04AD", "U+04AC",
   "U+04AF", "U+04AE", "U+04B1", "U+04B0", "U+04B3", "U+04B2",
   "U+04B5", "U+04B4", "U+04B7", "U+04B6", "U+04B9", "U+04B8",
   "U+04BB", "U+04BA", "U+04BD", "U+04BC", "U+04BF", "U+04BE",
   "U+04C2", "U+04C1", "U+04C4", "U+04C3", "U+04C6", "U+04C5",
   "U+04C8", "U+04C7", "U+04CA", "U+04C9", "U+04CC", "U+04CB",
   "U+04CE", "U+04CD", "U+04CF", "U+04C0", "U+04D1", "U+04D0",
   "U+04D3", "U+04D2", "U+04D5", "U+04D4", "U+04D7", "U+04D6",
   "U+04D9", "U+04D8", "U+04DB", "U+04DA", "U+04DD", "U+04DC",
   "U+04DF", "U+04DE", "U+04E1", "U+04E0", "U+04E3", "U+04E2",
   "U+04E5", "U+04E4", "U+04E7", "U+04E6", "U+04E9", "U+04E8",
   "U+04EB", "U+04EA", "U+04ED", "U+04EC", "U+04EF", "U+04EE",
   "U+04F1", "U+04F0", "U+04F3", "U+04F2", "U+04F5", "U+04F4",
   "U+04F7", "U+04F6", "U+04F9", "U+04F8", "U+04FB", "U+04FA",
   "U+04FD", "U+04FC", "U+04FF", "U+04FE", "U+0501", "U+0500",
   "U+0503", "U+0502", "U+0505", "U+0504", "U+0507", "U+0506",
   "U+0509", "U+0508", "U+050B", "U+050A", "U+050D", "U+050C",
   "U+050F", "U+050E", "U+0511", "U+0510", "U+0513", "U+0512",
   "U+0515", "U+0514", "U+0517", "U+0516", "U+0519", "U+0518",
   "U+051B", "U+051A", "U+051D", "U+051C", "U+051F", "U+051E",
   "U+0521", "U+0520", "U+0523", "U+0522", "U+0525", "U+0524",
   "U+0527", "U+0526", "U+0529", "U+0528", "U+052B", "U+052A",
   "U+052D", "U+052C", "U+052F", "U+052E", "U+0561", "U+0531",
   "U+0562", "U+0532", "U+0563", "U+0533", "U+0564", "U+0534",
   "U+0565", "U+0535", "U+0566", "U+0536", "U+0567", "U+0537",
   "U+0568", "U+0538", "U+0569", "U+0539", "U+056A", "U+053A",
   "U+056B", "U+053B", "U+056C", "U+053C", "U+056D", "U+053D",
   "U+056E", "U+053E", "U+056F", "U+053F", "U+0570", "U+0540",
   "U+0571", "U+0541", "U+0572", "U+0542", "U+0573", "U+0543",
   "U+0574", "U+0544", "U+0575", "U+0545", "U+0576", "U+0546",
   "U+0577", "U+0547", "U+0578", "U+0548", "U+0579", "U+0549",
   "U+057A", "U+054A", "U+057B", "U+054B", "U+057C", "U+054C",
   "U+057D", "U+054D", "U+057E", "U+054E", "U+057F", "U+054F",
   "U+0580", "U+0550", "U+0581", "U+0551", "U+0582", "U+0552",
   "U+0583", "U+0553", "U+0584", "U+0554", "U+0585", "U+0555",
   "U+0586", "U+0556", "U+10D0", "U+1C90", "U+10D1", "U+1C91",
   "U+10D2", "U+1C92", "U+10D3", "U+1C93", "U+10D4", "U+1C94",
   "U+10D5", "U+1C95", "U+10D6", "U+1C96", "U+10D7", "U+1C97",
   "U+10D8", "U+1C98", "U+10D9", "U+1C99", "U+10DA", "U+1C9A",
   "U+10DB", "U+1C9B", "U+10DC", "U+1C9C", "U+10DD", "U+1C9D",
   "U+10DE", "U+1C9E", "U+10DF", "U+1C9F", "U+10E0", "U+1CA0",
   "U+10E1", "U+1CA1", "U+10E2", "U+1CA2", "U+10E3", "U+1CA3",
   "U+10E4", "U+1CA4", "U+10E5", "U+1CA5", "U+10E6", "U+1CA6",
   "U+10E7", "U+1CA7", "U+10E8", "U+1CA8", "U+10E9", "U+1CA9",
   "U+10EA", "U+1CAA", "U+10EB", "U+1CAB", "U+10EC", "U+1CAC",
   "U+10ED", "U+1CAD", "U+10EE", "U+1CAE", "U+10EF", "U+1CAF",
   "U+10F0", "U+1CB0", "U+10F1", "U+1CB1", "U+10F2", "U+1CB2",
   "U+10F3", "U+1CB3", "U+10F4", "U+1CB4", "U+10F5", "U+1CB5",
   "U+10F6", "U+1CB6", "U+10F7", "U+1CB7", "U+10F8", "U+1CB8",
   "U+10F9", "U+1CB9", "U+10FA", "U+1CBA", "U+10FD", "U+1CBD",
   "U+10FE", "U+1CBE", "U+10FF", "U+1CBF", "U+13F8", "U+13F0",
   "U+13F9", "U+13F1", "U+13FA", "U+13F2", "U+13FB", "U+13F3",
   "U+13FC", "U+13F4", "U+13FD", "U+13F5", "U+1C80", "U+0412",
   "U+1C81", "U+0414", "U+1C82", "U+041E", "U+1C83", "U+0421",
   "U+1C84", "U+0422", "U+1C85", "U+0422", "U+1C86", "U+042A",
   "U+1C87", "U+0462", "U+1C88", "U+A64A", "U+1C8A", "U+1C89",
   "U+1D79", "U+A77D", "U+1D7D", "U+2C63", "U+1D8E", "U+A7C6",
   "U+1E01", "U+1E00", "U+1E03", "U+1E02", "U+1E05", "U+1E04",
   "U+1E07", "U+1E06", "U+1E09", "U+1E08", "U+1E0B", "U+1E0A",
   "U+1E0D", "U+1E0C", "U+1E0F", "U+1E0E", "U+1E11", "U+1E10",
   "U+1E13", "U+1E12", "U+1E15", "U+1E14", "U+1E17", "U+1E16",
   "U+1E19", "U+1E18", "U+1E1B", "U+1E1A", "U+1E1D", "U+1E1C",
   "U+1E1F", "U+1E1E", "U+1E21", "U+1E20", "U+1E23", "U+1E22",
   "U+1E25", "U+1E24", "U+1E27", "U+1E26", "U+1E29", "U+1E28",
   "U+1E2B", "U+1E2A", "U+1E2D", "U+1E2C", "U+1E2F", "U+1E2E",
   "U+1E31", "U+1E30", "U+1E33", "U+1E32", "U+1E35", "U+1E34",
   "U+1E37", "U+1E36", "U+1E39", "U+1E38", "U+1E3B", "U+1E3A",
   "U+1E3D", "U+1E3C", "U+1E3F", "U+1E3E", "U+1E41", "U+1E40",
   "U+1E43", "U+1E42", "U+1E45", "U+1E44", "U+1E47", "U+1E46",
   "U+1E49", "U+1E48", "U+1E4B", "U+1E4A", "U+1E4D", "U+1E4C",
   "U+1E4F", "U+1E4E", "U+1E51", "U+1E50", "U+1E53", "U+1E52",
   "U+1E55", "U+1E54", "U+1E57", "U+1E56", "U+1E59", "U+1E58",
   "U+1E5B", "U+1E5A", "U+1E5D", "U+1E5C", "U+1E5F", "U+1E5E",
   "U+1E61", "U+1E60", "U+1E63", "U+1E62", "U+1E65", "U+1E64",
   "U+1E67", "U+1E66", "U+1E69", "U+1E68", "U+1E6B", "U+1E6A",
   "U+1E6D", "U+1E6C", "U+1E6F", "U+1E6E", "U+1E71", "U+1E70",
   "U+1E73", "U+1E72", "U+1E75", "U+1E74", "U+1E77", "U+1E76",
   "U+1E79", "U+1E78", "U+1E7B", "U+1E7A", "U+1E7D", "U+1E7C",
   "U+1E7F", "U+1E7E", "U+1E81", "U+1E80", "U+1E83", "U+1E82",
   "U+1E85", "U+1E84", "U+1E87", "U+1E86", "U+1E89", "U+1E88",
   "U+1E8B", "U+1E8A", "U+1E8D", "U+1E8C", "U+1E8F", "U+1E8E",
   "U+1E91", "U+1E90", "U+1E93", "U+1E92", "U+1E95", "U+1E94",
   "U+1E9B", "U+1E60", "U+1EA1", "U+1EA0", "U+1EA3", "U+1EA2",
   "U+1EA5", "U+1EA4", "U+1EA7", "U+1EA6", "U+1EA9", "U+1EA8",
   "U+1EAB", "U+1EAA", "U+1EAD", "U+1EAC", "U+1EAF", "U+1EAE",
   "U+1EB1", "U+1EB0", "U+1EB3", "U+1EB2", "U+1EB5", "U+1EB4",
   "U+1EB7", "U+1EB6", "U+1EB9", "U+1EB8", "U+1EBB", "U+1EBA",
   "U+1EBD", "U+1EBC", "U+1EBF", "U+1EBE", "U+1EC1", "U+1EC0",
   "U+1EC3", "U+1EC2", "U+1EC5", "U+1EC4", "U+1EC7", "U+1EC6",
   "U+1EC9", "U+1EC8", "U+1ECB", "U+1ECA", "U+1ECD", "U+1ECC",
   "U+1ECF", "U+1ECE", "U+1ED1", "U+1ED0", "U+1ED3", "U+1ED2",
   "U+1ED5", "U+1ED4", "U+1ED7", "U+1ED6", "U+1ED9", "U+1ED8",
   "U+1EDB", "U+1EDA", "U+1EDD", "U+1EDC", "U+1EDF", "U+1EDE",
   "U+1EE1", "U+1EE0", "U+1EE3", "U+1EE2", "U+1EE5", "U+1EE4",
   "U+1EE7", "U+1EE6", "U+1EE9", "U+1EE8", "U+1EEB", "U+1EEA",
   "U+1EED", "U+1EEC", "U+1EEF", "U+1EEE", "U+1EF1", "U+1EF0",
   "U+1EF3", "U+1EF2", "U+1EF5", "U+1EF4", "U+1EF7", "U+1EF6",
   "U+1EF9", "U+1EF8", "U+1EFB", "U+1EFA", "U+1EFD", "U+1EFC",
   "U+1EFF", "U+1EFE", "U+1F00", "U+1F08", "U+1F01", "U+1F09",
   "U+1F02", "U+1F0A", "U+1F03", "U+1F0B", "U+1F04", "U+1F0C",
   "U+1F05", "U+1F0D", "U+1F06", "U+1F0E", "U+1F07", "U+1F0F",
   "U+1F10", "U+1F18", "U+1F11", "U+1F19", "U+1F12", "U+1F1A",
   "U+1F13", "U+1F1B", "U+1F14", "U+1F1C", "U+1F15", "U+1F1D",
   "U+1F20", "U+1F28", "U+1F21", "U+1F29", "U+1F22", "U+1F2A",
   "U+1F23", "U+1F2B", "U+1F24", "U+1F2C", "U+1F25", "U+1F2D",
   "U+1F26", "U+1F2E", "U+1F27", "U+1F2F", "U+1F30", "U+1F38",
   "U+1F31", "U+1F39", "U+1F32", "U+1F3A", "U+1F33", "U+1F3B",
   "U+1F34", "U+1F3C", "U+1F35", "U+1F3D", "U+1F36", "U+1F3E",
   "U+1F37", "U+1F3F", "U+1F40", "U+1F48", "U+1F41", "U+1F49",
   "U+1F42", "U+1F4A", "U+1F43", "U+1F4B", "U+1F44", "U+1F4C",
   "U+1F45", "U+1F4D", "U+1F51", "U+1F59", "U+1F53", "U+1F5B",
   "U+1F55", "U+1F5D", "U+1F57", "U+1F5F", "U+1F60", "U+1F68",
   "U+1F61", "U+1F69", "U+1F62", "U+1F6A", "U+1F63", "U+1F6B",
   "U+1F64", "U+1F6C", "U+1F65", "U+1F6D", "U+1F66", "U+1F6E",
   "U+1F67", "U+1F6F", "U+1F70", "U+1FBA", "U+1F71", "U+1FBB",
   "U+1F72", "U+1FC8", "U+1F73", "U+1FC9", "U+1F74", "U+1FCA",
   "U+1F75", "U+1FCB", "U+1F76", "U+1FDA", "U+1F77", "U+1FDB",
   "U+1F78", "U+1FF8", "U+1F79", "U+1FF9", "U+1F7A", "U+1FEA",
   "U+1F7B", "U+1FEB", "U+1F7C", "U+1FFA", "U+1F7D", "U+1FFB",
   "U+1FB0", "U+1FB8", "U+1FB1", "U+1FB9", "U+1FBE", "U+0399",
   "U+1FD0", "U+1FD8", "U+1FD1", "U+1FD9", "U+1FE0", "U+1FE8",
   "U+1FE1", "U+1FE9", "U+1FE5", "U+1FEC", "U+214E", "U+2132",
   "U+2170", "U+2160", "U+2171", "U+2161", "U+2172", "U+2162",
   "U+2173", "U+2163", "U+2174", "U+2164", "U+2175", "U+2165",
   "U+2176", "U+2166", "U+2177", "U+2167", "U+2178", "U+2168",
   "U+2179", "U+2169", "U+217A", "U+216A", "U+217B", "U+216B",
   "U+217C", "U+216C", "U+217D", "U+216D", "U+217E", "U+216E",
   "U+217F", "U+216F", "U+2184", "U+2183", "U+24D0", "U+24B6",
   "U+24D1", "U+24B7", "U+24D2", "U+24B8", "U+24D3", "U+24B9",
   "U+24D4", "U+24BA", "U+24D5", "U+24BB", "U+24D6", "U+24BC",
   "U+24D7", "U+24BD", "U+24D8", "U+24BE", "U+24D9", "U+24BF",
   "U+24DA", "U+24C0", "U+24DB", "U+24C1", "U+24DC", "U+24C2",
   "U+24DD", "U+24C3", "U+24DE", "U+24C4", "U+24DF", "U+24C5",
   "U+24E0", "U+24C6", "U+24E1", "U+24C7", "U+24E2", "U+24C8",
   "U+24E3", "U+24C9", "U+24E4", "U+24CA", "U+24E5", "U+24CB",
   "U+24E6", "U+24CC", "U+24E7", "U+24CD", "U+24E8", "U+24CE",
   "U+24E9", "U+24CF", "U+2C30", "U+2C00", "U+2C31", "U+2C01",
   "U+2C32", "U+2C02", "U+2C33", "U+2C03", "U+2C34", "U+2C04",
   "U+2C35", "U+2C05", "U+2C36", "U+2C06", "U+2C37", "U+2C07",
   "U+2C38", "U+2C08", "U+2C39", "U+2C09", "U+2C3A", "U+2C0A",
   "U+2C3B", "U+2C0B", "U+2C3C", "U+2C0C", "U+2C3D", "U+2C0D",
   "U+2C3E", "U+2C0E", "U+2C3F", "U+2C0F", "U+2C40", "U+2C10",
   "U+2C41", "U+2C11", "U+2C42", "U+2C12", "U+2C43", "U+2C13",
   "U+2C44", "U+2C14", "U+2C45", "U+2C15", "U+2C46", "U+2C16",
   "U+2C47", "U+2C17", "U+2C48", "U+2C18", "U+2C49", "U+2C19",
   "U+2C4A", "U+2C1A", "U+2C4B", "U+2C1B", "U+2C4C", "U+2C1C",
   "U+2C4D", "U+2C1D", "U+2C4E", "U+2C1E", "U+2C4F", "U+2C1F",
   "U+2C50", "U+2C20", "U+2C51", "U+2C21", "U+2C52", "U+2C22",
   "U+2C53", "U+2C23", "U+2C54", "U+2C24", "U+2C55", "U+2C25",
   "U+2C56", "U+2C26", "U+2C57", "U+2C27", "U+2C58", "U+2C28",
   "U+2C59", "U+2C29", "U+2C5A", "U+2C2A", "U+2C5B", "U+2C2B",
   "U+2C5C", "U+2C2C", "U+2C5D", "U+2C2D", "U+2C5E", "U+2C2E",
   "U+2C5F", "U+2C2F", "U+2C61", "U+2C60", "U+2C65", "U+023A",
   "U+2C66", "U+023E", "U+2C68", "U+2C67", "U+2C6A", "U+2C69",
   "U+2C6C", "U+2C6B", "U+2C73", "U+2C72", "U+2C76", "U+2C75",
   "U+2C81", "U+2C80", "U+2C83", "U+2C82", "U+2C85", "U+2C84",
   "U+2C87", "U+2C86", "U+2C89", "U+2C88", "U+2C8B", "U+2C8A",
   "U+2C8D", "U+2C8C", "U+2C8F", "U+2C8E", "U+2C91", "U+2C90",
   "U+2C93", "U+2C92", "U+2C95", "U+2C94", "U+2C97", "U+2C96",
   "U+2C99", "U+2C98", "U+2C9B", "U+2C9A", "U+2C9D", "U+2C9C",
   "U+2C9F", "U+2C9E", "U+2CA1", "U+2CA0", "U+2CA3", "U+2CA2",
   "U+2CA5", "U+2CA4", "U+2CA7", "U+2CA6", "U+2CA9", "U+2CA8",
   "U+2CAB", "U+2CAA", "U+2CAD", "U+2CAC", "U+2CAF", "U+2CAE",
   "U+2CB1", "U+2CB0", "U+2CB3", "U+2CB2", "U+2CB5", "U+2CB4",
   "U+2CB7", "U+2CB6", "U+2CB9", "U+2CB8", "U+2CBB", "U+2CBA",
   "U+2CBD", "U+2CBC", "U+2CBF", "U+2CBE", "U+2CC1", "U+2CC0",
   "U+2CC3", "U+2CC2", "U+2CC5", "U+2CC4", "U+2CC7", "U+2CC6",
   "U+2CC9", "U+2CC8", "U+2CCB", "U+2CCA", "U+2CCD", "U+2CCC",
   "U+2CCF", "U+2CCE", "U+2CD1", "U+2CD0", "U+2CD3", "U+2CD2",
   "U+2CD5", "U+2CD4", "U+2CD7", "U+2CD6", "U+2CD9", "U+2CD8",
   "U+2CDB", "U+2CDA", "U+2CDD", "U+2CDC", "U+2CDF", "U+2CDE",
   "U+2CE1", "U+2CE0", "U+2CE3", "U+2CE2", "U+2CEC", "U+2CEB",
   "U+2CEE", "U+2CED", "U+2CF3", "U+2CF2", "U+2D00", "U+10A0",
   "U+2D01", "U+10A1", "U+2D02", "U+10A2", "U+2D03", "U+10A3",
   "U+2D04", "U+10A4", "U+2D05", "U+10A5", "U+2D06", "U+10A6",
   "U+2D07", "U+10A7", "U+2D08", "U+10A8", "U+2D09", "U+10A9",
   "U+2D0A", "U+10AA", "U+2D0B", "U+10AB", "U+2D0C", "U+10AC",
   "U+2D0D", "U+10AD", "U+2D0E", "U+10AE", "U+2D0F", "U+10AF",
   "U+2D10", "U+10B0", "U+2D11", "U+10B1", "U+2D12", "U+10B2",
   "U+2D13", "U+10B3", "U+2D14", "U+10B4", "U+2D15", "U+10B5",
   "U+2D16", "U+10B6", "U+2D17", "U+10B7", "U+2D18", "U+10B8",
   "U+2D19", "U+10B9", "U+2D1A", "U+10BA", "U+2D1B", "U+10BB",
   "U+2D1C", "U+10BC", "U+2D1D", "U+10BD", "U+2D1E", "U+10BE",
   "U+2D1F", "U+10BF", "U+2D20", "U+10C0", "U+2D21", "U+10C1",
   "U+2D22", "U+10C2", "U+2D23", "U+10C3", "U+2D24", "U+10C4",
   "U+2D25", "U+10C5", "U+2D27", "U+10C7", "U+2D2D", "U+10CD",
   "U+A641", "U+A640", "U+A643", "U+A642", "U+A645", "U+A644",
   "U+A647", "U+A646", "U+A649", "U+A648", "U+A64B", "U+A64A",
   "U+A64D", "U+A64C", "U+A64F", "U+A64E", "U+A651", "U+A650",
   "U+A653", "U+A652", "U+A655", "U+A654", "U+A657", "U+A656",
   "U+A659", "U+A658", "U+A65B", "U+A65A", "U+A65D", "U+A65C",
   "U+A65F", "U+A65E", "U+A661", "U+A660", "U+A663", "U+A662",
   "U+A665", "U+A664", "U+A667", "U+A666", "U+A669", "U+A668",
   "U+A66B", "U+A66A", "U+A66D", "U+A66C", "U+A681", "U+A680",
   "U+A683", "U+A682", "U+A685", "U+A684", "U+A687", "U+A686",
   "U+A689", "U+A688", "U+A68B", "U+A68A", "U+A68D", "U+A68C",
   "U+A68F", "U+A68E", "U+A691", "U+A690", "U+A693", "U+A692",
   "U+A695", "U+A694", "U+A697", "U+A696", "U+A699", "U+A698",
   "U+A69B", "U+A69A", "U+A723", "U+A722", "U+A725", "U+A724",
   "U+A727", "U+A726", "U+A729", "U+A728", "U+A72B", "U+A72A",
   "U+A72D", "U+A72C", "U+A72F", "U+A72E", "U+A733", "U+A732",
   "U+A735", "U+A734", "U+A737", "U+A736", "U+A739", "U+A738",
   "U+A73B", "U+A73A", "U+A73D", "U+A73C", "U+A73F", "U+A73E",
   "U+A741", "U+A740", "U+A743", "U+A742", "U+A745", "U+A744",
   "U+A747", "U+A746", "U+A749", "U+A748", "U+A74B", "U+A74A",
   "U+A74D", "U+A74C", "U+A74F", "U+A74E", "U+A751", "U+A750",
   "U+A753", "U+A752", "U+A755", "U+A754", "U+A757", "U+A756",
   "U+A759", "U+A758", "U+A75B", "U+A75A", "U+A75D", "U+A75C",
   "U+A75F", "U+A75E", "U+A761", "U+A760", "U+A763", "U+A762",
   "U+A765", "U+A764", "U+A767", "U+A766", "U+A769", "U+A768",
   "U+A76B", "U+A76A", "U+A76D", "U+A76C", "U+A76F", "U+A76E",
   "U+A77A", "U+A779", "U+A77C", "U+A77B", "U+A77F", "U+A77E",
   "U+A781", "U+A780", "U+A783", "U+A782", "U+A785", "U+A784",
   "U+A787", "U+A786", "U+A78C", "U+A78B", "U+A791", "U+A790",
   "U+A793", "U+A792", "U+A794", "U+A7C4", "U+A797", "U+A796",
   "U+A799", "U+A798", "U+A79B", "U+A79A", "U+A79D", "U+A79C",
   "U+A79F", "U+A79E", "U+A7A1", "U+A7A0", "U+A7A3", "U+A7A2",
   "U+A7A5", "U+A7A4", "U+A7A7", "U+A7A6", "U+A7A9", "U+A7A8",
   "U+A7B5", "U+A7B4", "U+A7B7", "U+A7B6", "U+A7B9", "U+A7B8",
   "U+A7BB", "U+A7BA", "U+A7BD", "U+A7BC", "U+A7BF", "U+A7BE",
   "U+A7C1", "U+A7C0", "U+A7C3", "U+A7C2", "U+A7C8", "U+A7C7",
   "U+A7CA", "U+A7C9", "U+A7CD", "U+A7CC", "U+A7CF", "U+A7CE",
   "U+A7D1", "U+A7D0", "U+A7D3", "U+A7D2", "U+A7D5", "U+A7D4",
   "U+A7D7", "U+A7D6", "U+A7D9", "U+A7D8", "U+A7DB", "U+A7DA",
   "U+A7F6", "U+A7F5", "U+AB53", "U+A7B3", "U+AB70", "U+13A0",
   "U+AB71", "U+13A1", "U+AB72", "U+13A2", "U+AB73", "U+13A3",
   "U+AB74", "U+13A4", "U+AB75", "U+13A5", "U+AB76", "U+13A6",
   "U+AB77", "U+13A7", "U+AB78", "U+13A8", "U+AB79", "U+13A9",
   "U+AB7A", "U+13AA", "U+AB7B", "U+13AB", "U+AB7C", "U+13AC",
   "U+AB7D", "U+13AD", "U+AB7E", "U+13AE", "U+AB7F", "U+13AF",
   "U+AB80", "U+13B0", "U+AB81", "U+13B1", "U+AB82", "U+13B2",
   "U+AB83", "U+13B3", "U+AB84", "U+13B4", "U+AB85", "U+13B5",
   "U+AB86", "U+13B6", "U+AB87", "U+13B7", "U+AB88", "U+13B8",
   "U+AB89", "U+13B9", "U+AB8A", "U+13BA", "U+AB8B", "U+13BB",
   "U+AB8C", "U+13BC", "U+AB8D", "U+13BD", "U+AB8E", "U+13BE",
   "U+AB8F", "U+13BF", "U+AB90", "U+13C0", "U+AB91", "U+13C1",
   "U+AB92", "U+13C2", "U+AB93", "U+13C3", "U+AB94", "U+13C4",
   "U+AB95", "U+13C5", "U+AB96", "U+13C6", "U+AB97", "U+13C7",
   "U+AB98", "U+13C8", "U+AB99", "U+13C9", "U+AB9A", "U+13CA",
   "U+AB9B", "U+13CB", "U+AB9C", "U+13CC", "U+AB9D", "U+13CD",
   "U+AB9E", "U+13CE", "U+AB9F", "U+13CF", "U+ABA0", "U+13D0",
   "U+ABA1", "U+13D1", "U+ABA2", "U+13D2", "U+ABA3", "U+13D3",
   "U+ABA4", "U+13D4", "U+ABA5", "U+13D5", "U+ABA6", "U+13D6",
   "U+ABA7", "U+13D7", "U+ABA8", "U+13D8", "U+ABA9", "U+13D9",
   "U+ABAA", "U+13DA", "U+ABAB", "U+13DB", "U+ABAC", "U+13DC",
   "U+ABAD", "U+13DD", "U+ABAE", "U+13DE", "U+ABAF", "U+13DF",
   "U+ABB0", "U+13E0", "U+ABB1", "U+13E1", "U+ABB2", "U+13E2",
   "U+ABB3", "U+13E3", "U+ABB4", "U+13E4", "U+ABB5", "U+13E5",
   "U+ABB6", "U+13E6", "U+ABB7", "U+13E7", "U+ABB8", "U+13E8",
   "U+ABB9", "U+13E9", "U+ABBA", "U+13EA", "U+ABBB", "U+13EB",
   "U+ABBC", "U+13EC", "U+ABBD", "U+13ED", "U+ABBE", "U+13EE",
   "U+ABBF", "U+13EF", "U+FF41", "U+FF21", "U+FF42", "U+FF22",
   "U+FF43", "U+FF23", "U+FF44", "U+FF24", "U+FF45", "U+FF25",
   "U+FF46", "U+FF26", "U+FF47", "U+FF27", "U+FF48", "U+FF28",
   "U+FF49", "U+FF29", "U+FF4A", "U+FF2A", "U+FF4B", "U+FF2B",
   "U+FF4C", "U+FF2C", "U+FF4D", "U+FF2D", "U+FF4E", "U+FF2E",
   "U+FF4F", "U+FF2F", "U+FF50", "U+FF30", "U+FF51", "U+FF31",
   "U+FF52", "U+FF32", "U+FF53", "U+FF33", "U+FF54", "U+FF34",
   "U+FF55", "U+FF35", "U+FF56", "U+FF36", "U+FF57", "U+FF37",
   "U+FF58", "U+FF38", "U+FF59", "U+FF39", "U+FF5A", "U+FF3A">>
UpperAboveSet == KeysOf(UpperAboveTable, 2, 1)

\* toUpperCase of the code units that give two or three (ligatures, letters
\* whose upper case has no single character): each followed by what it gives.
UpperSpecialTable ==
  <<"U+0149", <<"U+02BC", "N">>, "U+01F0", <<"J", "U+030C">>,
   "U+0390", <<"U+0399", "U+0308", "U+0301">>,
   "U+03B0", <<"U+03A5", "U+0308", "U+0301">>,
   "U+0587", <<"U+0535", "U+0552">>, "U+1E96", <<"H", "U+0331">>,
   "U+1E97", <<"T", "U+0308">>, "U+1E98", <<"W", "U+030A">>,
   "U+1E99", <<"Y", "U+030A">>, "U+1E9A", <<"A", "U+02BE">>,
   "U+1F50", <<"U+03A5", "U+0313">>,
   "U+1F52", <<"U+03A5", "U+0313", "U+0300">>,
   "U+1F54", <<"U+03A5", "U+0313", "U+0301">>,
   "U+1F56", <<"U+03A5", "U+0313", "U+0342">>,
   "U+1F80", <<"U+1F08", "U+0399">>, "U+1F81", <<"U+1F09", "U+0399">>,
   "U+1F82", <<"U+1F0A", "U+0399">>, "U+1F83", <<"U+1F0B", "U+0399">>,
   "U+1F84", <<"U+1F0C", "U+0399">>, "U+1F85", <<"U+1F0D", "U+0399">>,
   "U+1F86", <<"U+1F0E", "U+0399">>, "U+1F87", <<"U+1F0F", "U+0399">>,
   "U+1F88", <<"U+1F08", "U+0399">>, "U+1F89", <<"U+1F09", "U+0399">>,
   "U+1F8A", <<"U+1F0A", "U+0399">>, "U+1F8B", <<"U+1F0B", "U+0399">>,
   "U+1F8C", <<"U+1F0C", "U+0399">>, "U+1F8D", <<"U+1F0D", "U+0399">>,
   "U+1F8E", <<"U+1F0E", "U+0399">>, "U+1F8F", <<"U+1F0F", "U+0399">>,
   "U+1F90", <<"U+1F28", "U+0399">>, "U+1F91", <<"U+1F29", "U+0399">>,
   "U+1F92", <<"U+1F2A", "U+0399">>, "U+1F93", <<"U+1F2B", "U+0399">>,
   "U+1F94", <<"U+1F2C", "U+0399">>, "U+1F95", <<"U+1F2D", "U+0399">>,
   "U+1F96", <<"U+1F2E", "U+0399">>, "U+1F97", <<"U+1F2F", "U+0399">>,
   "U+1F98", <<"U+1F28", "U+0399">>, "U+1F99", <<"U+1F29", "U+0399">>,
   "U+1F9A", <<"U+1F2A", "U+0399">>, "U+1F9B", <<"U+1F2B", "U+0399">>,
   "U+1F9C", <<"U+1F2C", "U+0399">>, "U+1F9D", <<"U+1F2D", "U+0399">>,
   "U+1F9E", <<"U+1F2E", "U+0399">>, "U+1F9F", <<"U+1F2F", "U+0399">>,
   "U+1FA0", <<"U+1F68", "U+0399">>, "U+1FA1", <<"U+1F69", "U+0399">>,
   "U+1FA2", <<"U+1F6A", "U+0399">>, "U+1FA3", <<"U+1F6B", "U+0399">>,
   "U+1FA4", <<"U+1F6C", "U+0399">>, "U+1FA5", <<"U+1F6D", "U+0399">>,
   "U+1FA6", <<"U+1F6E", "U+0399">>, "U+1FA7", <<"U+1F6F", "U+0399">>,
   "U+1FA8", <<"U+1F68", "U+0399">>, "U+1FA9", <<"U+1F69", "U+0399">>,
   "U+1FAA", <<"U+1F6A", "U+0399">>, "U+1FAB", <<"U+1F6B", "U+0399">>,
   "U+1FAC", <<"U+1F6C", "U+0399">>, "U+1FAD", <<"U+1F6D", "U+0399">>,
   "U+1FAE", <<"U+1F6E", "U+0399">>, "U+1FAF", <<"U+1F6F", "U+0399">>,
   "U+1FB2", <<"U+1FBA", "U+0399">>, "U+1FB3", <<"U+0391", "U+0399">>,
   "U+1FB4", <<"U+0386", "U+0399">>, "U+1FB6", <<"U+0391", "U+0342">>,
   "U+1FB7", <<"U+0391", "U+0342", "U+0399">>,
   "U+1FBC", <<"U+0391", "U+0399">>, "U+1FC2", <<"U+1FCA", "U+0399">>,
   "U+1FC3", <<"U+0397", "U+0399">>, "U+1FC4", <<"U+0389", "U+0399">>,
   "U+1FC6", <<"U+0397", "U+0342">>,
   "U+1FC7", <<"U+0397", "U+0342", "U+0399">>,
   "U+1FCC", <<"U+0397", "U+0399">>,
   "U+1FD2", <<"U+0399", "U+0308", "U+0300">>,
   "U+1FD3", <<"U+0399", "U+0308", "U+0301">>,
   "U+1FD6", <<"U+0399", "U+0342">>,
   "U+1FD7", <<"U+0399", "U+0308", "U+0342">>,
   "U+1FE2", <<"U+03A5", "U+0308", "U+0300">>,
   "U+1FE3", <<"U+03A5", "U+0308", "U+0301">>,
   "U+1FE4", <<"U+03A1", "U+0313">>, "U+1FE6", <<"U+03A5", "U+0342">>,
   "U+1FE7", <<"U+03A5", "U+0308", "U+0342">>,
   "U+1FF2", <<"U+1FFA", "U+0399">>, "U+1FF3", <<"U+03A9", "U+0399">>,
   "U+1FF4", <<"U+038F", "U+0399">>, "U+1FF6", <<"U+03A9", "U+0342">>,
   "U+1FF7", <<"U+03A9", "U+0342", "U+0399">>,
   "U+1FFC", <<"U+03A9", "U+0399">>, "U+FB00", <<"F", "F">>,
   "U+FB01", <<"F", "I">>, "U+FB02", <<"F", "L">>,
   "U+FB03", <<"F", "F", "I">>, "U+FB04", <<"F", "F", "L">>,
   "U+FB05", <<"S", "T">>, "U+FB06", <<"S", "T">>,
   "U+FB13", <<"U+0544", "U+0546">>, "U+FB14", <<"U+0544", "U+0535">>,
   "U+FB15", <<"U+0544", "U+053B">>, "U+FB16", <<"U+054E", "U+0546">>,
   "U+FB17", <<"U+0544", "U+053D">>>>
UpperSpecialSet == KeysOf(UpperSpecialTable, 2, 1)

\* toUpperCase of the surrogate pairs it changes: the two code units of each,
\* followed by the low surrogate of what it gives (the high one is kept).
UpperPairTable ==
  <<"U+D801", "U+DC28", "U+DC00", "U+D801", "U+DC29", "U+DC01",
   "U+D801", "U+DC2A", "U+DC02", "U+D801", "U+DC2B", "U+DC03",
   "U+D801", "U+DC2C", "U+DC04", "U+D801", "U+DC2D", "U+DC05",
   "U+D801", "U+DC2E", "U+DC06", "U+D801", "U+DC2F", "U+DC07",
   "U+D801", "U+DC30", "U+DC08", "U+D801", "U+DC31", "U+DC09",
   "U+D801", "U+DC32", "U+DC0A", "U+D801", "U+DC33", "U+DC0B",
   "U+D801", "U+DC34", "U+DC0C", "U+D801", "U+DC35", "U+DC0D",
   "U+D801", "U+DC36", "U+DC0E", "U+D801", "U+DC37", "U+DC0F",
   "U+D801", "U+DC38", "U+DC10", "U+D801", "U+DC39", "U+DC11",
   "U+D801", "U+DC3A", "U+DC12", "U+D801", "U+DC3B", "U+DC13",
   "U+D801", "U+DC3C", "U+DC14", "U+D801", "U+DC3D", "U+DC15",
   "U+D801", "U+DC3E", "U+DC16", "U+D801", "U+DC3F", "U+DC17",
   "U+D801", "U+DC40", "U+DC18", "U+D801", "U+DC41", "U+DC19",
   "U+D801", "U+DC42", "U+DC1A", "U+D801", "U+DC43", "U+DC1B",
   "U+D801", "U+DC44", "U+DC1C", "U+D801", "U+DC45", "U+DC1D",
   "U+D801", "U+DC46", "U+DC1E", "U+D801", "U+DC47", "U+DC1F",
   "U+D801", "U+DC48", "U+DC20", "U+D801", "U+DC49", "U+DC21",
   "U+D801", "U+DC4A", "U+DC22", "U+D801", "U+DC4B", "U+DC23",
   "U+D801", "U+DC4C", "U+DC24", "U+D801", "U+DC4D", "U+DC25",
   "U+D801", "U+DC4E", "U+DC26", "U+D801", "U+DC4F", "U+DC27",
   "U+D801", "U+DCD8", "U+DCB0", "U+D801", "U+DCD9", "U+DCB1",
   "U+D801", "U+DCDA", "U+DCB2", "U+D801", "U+DCDB", "U+DCB3",
   "U+D801", "U+DCDC", "U+DCB4", "U+D801", "U+DCDD", "U+DCB5",
   "U+D801", "U+DCDE", "U+DCB6", "U+D801", "U+DCDF", "U+DCB7",
   "U+D801", "U+DCE0", "U+DCB8", "U+D801", "U+DCE1", "U+DCB9",
   "U+D801", "U+DCE2", "U+DCBA", "U+D801", "U+DCE3", "U+DCBB",
   "U+D801", "U+DCE4", "U+DCBC", "U+D801", "U+DCE5", "U+DCBD",
   "U+D801", "U+DCE6", "U+DCBE", "U+D801", "U+DCE7", "U+DCBF",
   "U+D801", "U+DCE8", "U+DCC0", "U+D801", "U+DCE9", "U+DCC1",
   "U+D801", "U+DCEA", "U+DCC2", "U+D801", "U+DCEB", "U+DCC3",
   "U+D801", "U+DCEC", "U+DCC4", "U+D801", "U+DCED", "U+DCC5",
   "U+D801", "U+DCEE", "U+DCC6", "U+D801", "U+DCEF", "U+DCC7",
   "U+D801", "U+DCF0", "U+DCC8", "U+D801", "U+DCF1", "U+DCC9",
   "U+D801", "U+DCF2", "U+DCCA", "U+D801", "U+DCF3", "U+DCCB",
   "U+D801", "U+DCF4", "U+DCCC", "U+D801", "U+DCF5", "U+DCCD",
   "U+D801", "U+DCF6", "U+DCCE", "U+D801", "U+DCF7", "U+DCCF",
   "U+D801", "U+DCF8", "U+DCD0", "U+D801", "U+DCF9", "U+DCD1",
   "U+D801", "U+DCFA", "U+DCD2", "U+D801", "U+DCFB", "U+DCD3",
   "U+D801", "U+DD97", "U+DD70", "U+D801", "U+DD98", "U+DD71",
   "U+D801", "U+DD99", "U+DD72", "U+D801", "U+DD9A", "U+DD73",
   "U+D801", "U+DD9B", "U+DD74", "U+D801", "U+DD9C", "U+DD75",
   "U+D801", "U+DD9D", "U+DD76", "U+D801", "U+DD9E", "U+DD77",
   "U+D801", "U+DD9F", "U+DD78", "U+D801", "U+DDA0", "U+DD79",
   "U+D801", "U+DDA1", "U+DD7A", "U+D801", "U+DDA3", "U+DD7C",
   "U+D801", "U+DDA4", "U+DD7D", "U+D801", "U+DDA5", "U+DD7E",
   "U+D801", "U+DDA6", "U+DD7F", "U+D801", "U+DDA7", "U+DD80",
   "U+D801", "U+DDA8", "U+DD81", "U+D801", "U+DDA9", "U+DD82",
   "U+D801", "U+DDAA", "U+DD83", "U+D801", "U+DDAB", "U+DD84",
   "U+D801", "U+DDAC", "U+DD85", "U+D801", "U+DDAD", "U+DD86",
   "U+D801", "U+DDAE", "U+DD87", "U+D801", "U+DDAF", "U+DD88",
   "U+D801", "U+DDB0", "U+DD89", "U+D801", "U+DDB1", "U+DD8A",
   "U+D801", "U+DDB3", "U+DD8C", "U+D801", "U+DDB4", "U+DD8D",
   "U+D801", "U+DDB5", "U+DD8E", "U+D801", "U+DDB6", "U+DD8F",
   "U+D801", "U+DDB7", "U+DD90", "U+D801", "U+DDB8", "U+DD91",
   "U+D801", "U+DDB9", "U+DD92", "U+D801", "U+DDBB", "U+DD94",
   "U+D801", "U+DDBC", "U+DD95", "U+D803", "U+DCC0", "U+DC80",
   "U+D803", "U+DCC1", "U+DC81", "U+D803", "U+DCC2", "U+DC82",
   "U+D803", "U+DCC3", "U+DC83", "U+D803", "U+DCC4", "U+DC84",
   "U+D803", "U+DCC5", "U+DC85", "U+D803", "U+DCC6", "U+DC86",
   "U+D803", "U+DCC7", "U+DC87", "U+D803", "U+DCC8", "U+DC88",
   "U+D803", "U+DCC9", "U+DC89", "U+D803", "U+DCCA", "U+DC8A",
   "U+D803", "U+DCCB", "U+DC8B", "U+D803", "U+DCCC", "U+DC8C",
   "U+D803", "U+DCCD", "U+DC8D", "U+D803", "U+DCCE", "U+DC8E",
   "U+D803", "U+DCCF", "U+DC8F", "U+D803", "U+DCD0", "U+DC90",
   "U+D803", "U+DCD1", "U+DC91", "U+D803", "U+DCD2", "U+DC92",
   "U+D803", "U+DCD3", "U+DC93", "U+D803", "U+DCD4", "U+DC94",
   "U+D803", "U+DCD5", "U+DC95", "U+D803", "U+DCD6", "U+DC96",
   "U+D803", "U+DCD7", "U+DC97", "U+D803", "U+DCD8", "U+DC98",
   "U+D803", "U+DCD9", "U+DC99", "U+D803", "U+DCDA", "U+DC9A",
   "U+D803", "U+DCDB", "U+DC9B", "U+D803", "U+DCDC", "U+DC9C",
   "U+D803", "U+DCDD", "U+DC9D", "U+D803", "U+DCDE", "U+DC9E",
   "U+D803", "U+DCDF", "U+DC9F", "U+D803", "U+DCE0", "U+DCA0",
   "U+D803", "U+DCE1", "U+DCA1", "U+D803", "U+DCE2", "U+DCA2",
   "U+D803", "U+DCE3", "U+DCA3", "U+D803", "U+DCE4", "U+DCA4",
   "U+D803", "U+DCE5", "U+DCA5", "U+D803", "U+DCE6", "U+DCA6",
   "U+D803", "U+DCE7", "U+DCA7", "U+D803", "U+DCE8", "U+DCA8",
   "U+D803", "U+DCE9", "U+DCA9", "U+D803", "U+DCEA", "U+DCAA",
   "U+D803", "U+DCEB", "U+DCAB", "U+D803", "U+DCEC", "U+DCAC",
   "U+D803", "U+DCED", "U+DCAD", "U+D803", "U+DCEE", "U+DCAE",
   "U+D803", "U+DCEF", "U+DCAF", "U+D803", "U+DCF0", "U+DCB0",
   "U+D803", "U+DCF1", "U+DCB1", "U+D803", "U+DCF2", "U+DCB2",
   "U+D803", "U+DD70", "U+DD50", "U+D803", "U+DD71", "U+DD51",
   "U+D803", "U+DD72", "U+DD52", "U+D803", "U+DD73", "U+DD53",
   "U+D803", "U+DD74", "U+DD54", "U+D803", "U+DD75", "U+DD55",
   "U+D803", "U+DD76", "U+DD56", "U+D803", "U+DD77", "U+DD57",
   "U+D803", "U+DD78", "U+DD58", "U+D803", "U+DD79", "U+DD59",
   "U+D803", "U+DD7A", "U+DD5A", "U+D803", "U+DD7B", "U+DD5B",
   "U+D803", "U+DD7C", "U+DD5C", "U+D803", "U+DD7D", "U+DD5D",
   "U+D803", "U+DD7E", "U+DD5E", "U+D803", "U+DD7F", "U+DD5F",
   "U+D803", "U+DD80", "U+DD60", "U+D803", "U+DD81", "U+DD61",
   "U+D803", "U+DD82", "U+DD62", "U+D803", "U+DD83", "U+DD63",
   "U+D803", "U+DD84", "U+DD64", "U+D803", "U+DD85", "U+DD65",
   "U+D806", "U+DCC0", "U+DCA0", "U+D806", "U+DCC1", "U+DCA1",
   "U+D806", "U+DCC2", "U+DCA2", "U+D806", "U+DCC3", "U+DCA3",
   "U+D806", "U+DCC4", "U+DCA4", "U+D806", "U+DCC5", "U+DCA5",
   "U+D806", "U+DCC6", "U+DCA6", "U+D806", "U+DCC7", "U+DCA7",
   "U+D806", "U+DCC8", "U+DCA8", "U+D806", "U+DCC9", "U+DCA9",
   "U+D806", "U+DCCA", "U+DCAA", "U+D806", "U+DCCB", "U+DCAB",
   "U+D806", "U+DCCC", "U+DCAC", "U+D806", "U+DCCD", "U+DCAD",
   "U+D806", "U+DCCE", "U+DCAE", "U+D806", "U+DCCF", "U+DCAF",
   "U+D806", "U+DCD0", "U+DCB0", "U+D806", "U+DCD1", "U+DCB1",
   "U+D806", "U+DCD2", "U+DCB2", "U+D806", "U+DCD3", "U+DCB3",
   "U+D806", "U+DCD4", "U+DCB4", "U+D806", "U+DCD5", "U+DCB5",
   "U+D806", "U+DCD6", "U+DCB6", "U+D806", "U+DCD7", "U+DCB7",
   "U+D806", "U+DCD8", "U+DCB8", "U+D806", "U+DCD9", "U+DCB9",
   "U+D806", "U+DCDA", "U+DCBA", "U+D806", "U+DCDB", "U+DCBB",
   "U+D806", "U+DCDC", "U+DCBC", "U+D806", "U+DCDD", "U+DCBD",
   "U+D806", "U+DCDE", "U+DCBE", "U+D806", "U+DCDF", "U+DCBF",
   "U+D81B", "U+DE60", "U+DE40", "U+D81B", "U+DE61", "U+DE41",
   "U+D81B", "U+DE62", "U+DE42", "U+D81B", "U+DE63", "U+DE43",
   "U+D81B", "U+DE64", "U+DE44", "U+D81B", "U+DE65", "U+DE45",
   "U+D81B", "U+DE66", "U+DE46", "U+D81B", "U+DE67", "U+DE47",
   "U+D81B", "U+DE68", "U+DE48", "U+D81B", "U+DE69", "U+DE49",
   "U+D81B", "U+DE6A", "U+DE4A", "U+D81B", "U+DE6B", "U+DE4B",
   "U+D81B", "U+DE6C", "U+DE4C", "U+D81B", "U+DE6D", "U+DE4D",
   "U+D81B", "U+DE6E", "U+DE4E", "U+D81B", "U+DE6F", "U+DE4F",
   "U+D81B", "U+DE70", "U+DE50", "U+D81B", "U+DE71", "U+DE51",
   "U+D81B", "U+DE72", "U+DE52", "U+D81B", "U+DE73", "U+DE53",
   "U+D81B", "U+DE74", "U+DE54", "U+D81B", "U+DE75", "U+DE55",
   "U+D81B", "U+DE76", "U+DE56", "U+D81B", "U+DE77", "U+DE57",
   "U+D81B", "U+DE78", "U+DE58", "U+D81B", "U+DE79", "U+DE59",
   "U+D81B", "U+DE7A", "U+DE5A", "U+D81B", "U+DE7B", "U+DE5B",
   "U+D81B", "U+DE7C", "U+DE5C", "U+D81B", "U+DE7D", "U+DE5D",
   "U+D81B", "U+DE7E", "U+DE5E", "U+D81B", "U+DE7F", "U+DE5F",
   "U+D81B", "U+DEBB", "U+DEA0", "U+D81B", "U+DEBC", "U+DEA1",
   "U+D81B", "U+DEBD", "U+DEA2", "U+D81B", "U+DEBE", "U+DEA3",
   "U+D81B", "U+DEBF", "U+DEA4", "U+D81B", "U+DEC0", "U+DEA5",
   "U+D81B", "U+DEC1", "U+DEA6", "U+D81B", "U+DEC2", "U+DEA7",
   "U+D81B", "U+DEC3", "U+DEA8", "U+D81B", "U+DEC4", "U+DEA9",
   "U+D81B", "U+DEC5", "U+DEAA", "U+D81B", "U+DEC6", "U+DEAB",
   "U+D81B", "U+DEC7", "U+DEAC", "U+D81B", "U+DEC8", "U+DEAD",
   "U+D81B", "U+DEC9", "U+DEAE", "U+D81B", "U+DECA", "U+DEAF",
   "U+D81B", "U+DECB", "U+DEB0", "U+D81B", "U+DECC", "U+DEB1",
   "U+D81B", "U+DECD", "U+DEB2", "U+D81B", "U+DECE", "U+DEB3",
   "U+D81B", "U+DECF", "U+DEB4", "U+D81B", "U+DED0", "U+DEB5",
   "U+D81B", "U+DED1", "U+DEB6", "U+D81B", "U+DED2", "U+DEB7",
   "U+D81B", "U+DED3", "U+DEB8", "U+D83A", "U+DD22", "U+DD00",
   "U+D83A", "U+DD23", "U+DD01", "U+D83A", "U+DD24", "U+DD02",
   "U+D83A", "U+DD25", "U+DD03", "U+D83A", "U+DD26", "U+DD04",
   "U+D83A", "U+DD27", "U+DD05", "U+D83A", "U+DD28", "U+DD06",
   "U+D83A", "U+DD29", "U+DD07", "U+D83A", "U+DD2A", "U+DD08",
   "U+D83A", "U+DD2B", "U+DD09", "U+D83A", "U+DD2C", "U+DD0A",
   "U+D83A", "U+DD2D", "U+DD0B", "U+D83A", "U+DD2E", "U+DD0C",
   "U+D83A", "U+DD2F", "U+DD0D", "U+D83A", "U+DD30", "U+DD0E",
   "U+D83A", "U+DD31", "U+DD0F", "U+D83A", "U+DD32", "U+DD10",
   "U+D83A", "U+DD33", "U+DD11", "U+D83A", "U+DD34", "U+DD12",
   "U+D83A", "U+DD35", "U+DD13", "U+D83A", "U+DD36", "U+DD14",
   "U+D83A", "U+DD37", "U+DD15", "U+D83A", "U+DD38", "U+DD16",
   "U+D83A", "U+DD39", "U+DD17", "U+D83A", "U+DD3A", "U+DD18",
   "U+D83A", "U+DD3B", "U+DD19", "U+D83A", "U+DD3C", "U+DD1A",
   "U+D83A", "U+DD3D", "U+DD1B", "U+D83A", "U+DD3E", "U+DD1C",
   "U+D83A", "U+DD3F", "U+DD1D", "U+D83A", "U+DD40", "U+DD1E",
   "U+D83A", "U+DD41", "U+DD1F", "U+D83A", "U+DD42", "U+DD20",
   "U+D83A", "U+DD43", "U+DD21">>
UpperPairSet == KeysOf(UpperPairTable, 3, 2)

\* toLowerCase of the code units that give one code unit: each followed by
\* the code unit it gives.
LowerAboveTable ==
  <<"U+0100", "U+0101", "U+0102", "U+0103", "U+0104", "U+0105",
   "U+0106", "U+0107", "U+0108", "U+0109", "U+010A", "U+010B",
   "U+010C", "U+010D", "U+010E", "U+010F", "U+0110", "U+0111",
   "U+0112", "U+0113", "U+0114", "U+0115", "U+0116", "U+0117",
   "U+0118", "U+0119", "U+011A", "U+011B", "U+011C", "U+011D",
   "U+011E", "U+011F", "U+0120", "U+0121", "U+0122", "U+0123",
   "U+0124", "U+0125", "U+0126", "U+0127", "U+0128", "U+0129",
   "U+012A", "U+012B", "U+012C", "U+012D", "U+012E", "U+012F",
   "U+0132", "U+0133", "U+0134", "U+0135", "U+0136", "U+0137",
   "U+0139", "U+013A", "U+013B", "U+013C", "U+013D", "U+013E",
   "U+013F", "U+0140", "U+0141", "U+0142", "U+0143", "U+0144",
   "U+0145", "U+0146", "U+0147", "U+0148", "U+014A", "U+014B",
   "U+014C", "U+014D", "U+014E", "U+014F", "U+0150", "U+0151",
   "U+0152", "U+0153", "U+0154", "U+0155", "U+0156", "U+0157",
   "U+0158", "U+0159", "U+015A", "U+015B", "U+015C", "U+015D",
   "U+015E", "U+015F", "U+0160", "U+0161", "U+0162", "U+0163",
   "U+0164", "U+0165", "U+0166", "U+0167", "U+0168", "U+0169",
   "U+016A", "U+016B", "U+016C", "U+016D", "U+016E", "U+016F",
   "U+0170", "U+0171", "U+0172", "U+0173", "U+0174", "U+0175",
   "U+0176", "U+0177", "U+0178", "ÿ", "U+0179", "U+017A",
   "U+017B", "U+017C", "U+017D", "U+017E", "U+0181", "U+0253",
   "U+0182", "U+0183", "U+0184", "U+0185", "U+0186", "U+0254",
   "U+0187", "U+0188", "U+0189", "U+0256", "U+018A", "U+0257",
   "U+018B", "U+018C", "U+018E", "U+01DD", "U+018F", "U+0259",
   "U+0190", "U+025B", "U+0191", "U+0192", "U+0193", "U+0260",
   "U+0194", "U+0263", "U+0196", "U+0269", "U+0197", "U+0268",
   "U+0198", "U+0199", "U+019C", "U+026F", "U+019D", "U+0272",
   "U+019F", "U+0275", "U+01A0", "U+01A1", "U+01A2", "U+01A3",
   "U+01A4", "U+01A5", "U+01A6", "U+0280", "U+01A7", "U+01A8",
   "U+01A9", "U+0283", "U+01AC", "U+01AD", "U+01AE", "U+0288",
   "U+01AF", "U+01B0", "U+01B1", "U+028A", "U+01B2", "U+028B",
   "U+01B3", "U+01B4", "U+01B5", "U+01B6", "U+01B7", "U+0292",
   "U+01B8", "U+01B9", "U+01BC", "U+01BD", "U+01C4", "U+01C6",
   "U+01C5", "U+01C6", "U+01C7", "U+01C9", "U+01C8", "U+01C9",
   "U+01CA", "U+01CC", "U+01CB", "U+01CC", "U+01CD", "U+01CE",
   "U+01CF", "U+01D0", "U+01D1", "U+01D2", "U+01D3", "U+01D4",
   "U+01D5", "U+01D6", "U+01D7", "U+01D8", "U+01D9", "U+01DA",
   "U+01DB", "U+01DC", "U+01DE", "U+01DF", "U+01E0", "U+01E1",
   "U+01E2", "U+01E3", "U+01E4", "U+01E5", "U+01E6", "U+01E7",
   "U+01E8", "U+01E9", "U+01EA", "U+01EB", "U+01EC", "U+01ED",
   "U+01EE", "U+01EF", "U+01F1", "U+01F3", "U+01F2", "U+01F3",
   "U+01F4", "U+01F5", "U+01F6", "U+0195", "U+01F7", "U+01BF",
   "U+01F8", "U+01F9", "U+01FA", "U+01FB", "U+01FC", "U+01FD",
   "U+01FE", "U+01FF", "U+0200", "U+0201", "U+0202", "U+0203",
   "U+0204", "U+0205", "U+0206", "U+0207", "U+0208", "U+0209",
   "U+020A", "U+020B", "U+020C", "U+020D", "U+020E", "U+020F",
   "U+0210", "U+0211", "U+0212", "U+0213", "U+0214", "U+0215",
   "U+0216", "U+0217", "U+0218", "U+0219", "U+021A", "U+021B",
   "U+021C", "U+021D", "U+021E", "U+021F", "U+0220", "U+019E",
   "U+0222", "U+0223", "U+0224", "U+0225", "U+0226", "U+0227",
   "U+0228", "U+0229", "U+022A", "U+022B", "U+022C", "U+022D",
   "U+022E", "U+022F", "U+0230", "U+0231", "U+0232", "U+0233",
   "U+023A", "U+2C65", "U+023B", "U+023C", "U+023D", "U+019A",
   "U+023E", "U+2C66", "U+0241", "U+0242", "U+0243", "U+0180",
   "U+0244", "U+0289", "U+0245", "U+028C", "U+0246", "U+0247",
   "U+0248", "U+0249", "U+024A", "U+024B", "U+024C", "U+024D",
   "U+024E", "U+024F", "U+0370", "U+0371", "U+0372", "U+0373",
   "U+0376", "U+0377", "U+037F", "U+03F3", "U+0386", "U+03AC",
   "U+0388", "U+03AD", "U+0389", "U+03AE", "U+038A", "U+03AF",
   "U+038C", "U+03CC", "U+038E", "U+03CD", "U+038F", "U+03CE",
   "U+0391", "U+03B1", "U+0392", "U+03B2", "U+0393", "U+03B3",
   "U+0394", "U+03B4", "U+0395", "U+03B5", "U+0396", "U+03B6",
   "U+0397", "U+03B7", "U+0398", "U+03B8", "U+0399", "U+03B9",
   "U+039A", "U+03BA", "U+039B", "U+03BB", "U+039C", "U+03BC",
   "U+039D", "U+03BD", "U+039E", "U+03BE", "U+039F", "U+03BF",
   "U+03A0", "U+03C0", "U+03A1", "U+03C1", "U+03A3", "U+03C3",
   "U+03A4", "U+03C4", "U+03A5", "U+03C5", "U+03A6", "U+03C6",
   "U+03A7", "U+03C7", "U+03A8", "U+03C8", "U+03A9", "U+03C9",
   "U+03AA", "U+03CA", "U+03AB", "U+03CB", "U+03CF", "U+03D7",
   "U+03D8", "U+03D9", "U+03DA", "U+03DB", "U+03DC", "U+03DD",
   "U+03DE", "U+03DF", "U+03E0", "U+03E1", "U+03E2", "U+03E3",
   "U+03E4", "U+03E5", "U+03E6", "U+03E7", "U+03E8", "U+03E9",
   "U+03EA", "U+03EB", "U+03EC", "U+03ED", "U+03EE", "U+03EF",
   "U+03F4", "U+03B8", "U+03F7", "U+03F8", "U+03F9", "U+03F2",
   "U+03FA", "U+03FB", "U+03FD", "U+037B", "U+03FE", "U+037C",
   "U+03FF", "U+037D", "U+0400", "U+0450", "U+0401", "U+0451",
   "U+0402", "U+0452", "U+0403", "U+0453", "U+0404", "U+0454",
   "U+0405", "U+0455", "U+0406", "U+0456", "U+0407", "U+0457",
   "U+0408", "U+0458", "U+0409", "U+0459", "U+040A", "U+045A",
   "U+040B", "U+045B", "U+040C", "U+045C", "U+040D", "U+045D",
   "U+040E", "U+045E", "U+040F", "U+045F", "U+0410", "U+0430",
   "U+0411", "U+0431", "U+0412", "U+0432", "U+0413", "U+0433",
   "U+0414", "U+0434", "U+0415", "U+0435", "U+0416", "U+0436",
   "U+0417", "U+0437", "U+0418", "U+0438", "U+0419", "U+0439",
   "U+041A", "U+043A", "U+041B", "U+043B", "U+041C", "U+043C",
   "U+041D", "U+043D", "U+041E", "U+043E", "U+041F", "U+043F",
   "U+0420", "U+0440", "U+0421", "U+0441", "U+0422", "U+0442",
   "U+0423", "U+0443", "U+0424", "U+0444", "U+0425", "U+0445",
   "U+0426", "U+0446", "U+0427", "U+0447", "U+0428", "U+0448",
   "U+0429", "U+0449", "U+042A", "U+044A", "U+042B", "U+044B",
   "U+042C", "U+044C", "U+042D", "U+044D", "U+042E", "U+044E",
   "U+042F", "U+044F", "U+0460", "U+0461", "U+0462", "U+0463",
   "U+0464", "U+0465", "U+0466", "U+0467", "U+0468", "U+0469",
   "U+046A", "U+046B", "U+046C", "U+046D", "U+046E", "U+046F",
   "U+0470", "U+0471", "U+0472", "U+0473", "U+0474", "U+0475",
   "U+0476", "U+0477", "U+0478", "U+0479", "U+047A", "U+047B",
   "U+047C", "U+047D", "U+047E", "U+047F", "U+0480", "U+0481",
   "U+048A", "U+048B", "U+048C", "U+048D", "U+048E", "U+048F",
   "U+0490", "U+0491", "U+0492", "U+0493", "U+0494", "U+0495",
   "U+0496", "U+0497", "U+0498", "U+0499", "U+049A", "U+049B",
   "U+049C", "U+049D", "U+049E", "U+049F", "U+04A0", "U+04A1",
   "U+04A2", "U+04A3", "U+04A4", "U+04A5", "U+04A6", "U+04A7",
   "U+04A8", "U+04A9", "U+04AA", "U+04AB", "U+04AC", "U+04AD",
   "U+04AE", "U+04AF", "U+04B0", "U+04B1", "U+04B2", "U+04B3",
   "U+04B4", "U+04B5", "U+04B6", "U+04B7", "U+04B8", "U+04B9",
   "U+04BA", "U+04BB", "U+04BC", "U+04BD", "U+04BE", "U+04BF",
   "U+04C0", "U+04CF", "U+04C1", "U+04C2", "U+04C3", "U+04C4",
   "U+04C5", "U+04C6", "U+04C7", "U+04C8", "U+04C9", "U+04CA",
   "U+04CB", "U+04CC", "U+04CD", "U+04CE", "U+04D0", "U+04D1",
   "U+04D2", "U+04D3", "U+04D4", "U+04D5", "U+04D6", "U+04D7",
   "U+04D8", "U+04D9", "U+04DA", "U+04DB", "U+04DC", "U+04DD",
   "U+04DE", "U+04DF", "U+04E0", "U+04E1", "U+04E2", "U+04E3",
   "U+04E4", "U+04E5", "U+04E6", "U+04E7", "U+04E8", "U+04E9",
   "U+04EA", "U+04EB", "U+04EC", "U+04ED", "U+04EE", "U+04EF",
   "U+04F0", "U+04F1", "U+04F2", "U+04F3", "U+04F4", "U+04F5",
   "U+04F6", "U+04F7", "U+04F8", "U+04F9", "U+04FA", "U+04FB",
   "U+04FC", "U+04FD", "U+04FE", "U+04FF", "U+0500", "U+0501",
   "U+0502", "U+0503", "U+0504", "U+0505", "U+0506", "U+0507",
   "U+0508", "U+0509", "U+050A", "U+050B", "U+050C", "U+050D",
   "U+050E", "U+050F", "U+0510", "U+0511", "U+0512", "U+0513",
   "U+0514", "U+0515", "U+0516", "U+0517", "U+0518", "U+0519",
   "U+051A", "U+051B", "U+051C", "U+051D", "U+051E", "U+051F",
   "U+0520", "U+0521", "U+0522", "U+0523", "U+0524", "U+0525",
   "U+0526", "U+0527", "U+0528", "U+0529", "U+052A", "U+052B",
   "U+052C", "U+052D", "U+052E", "U+052F", "U+0531", "U+0561",
   "U+0532", "U+0562", "U+0533", "U+0563", "U+0534", "U+0564",
   "U+0535", "U+0565", "U+0536", "U+0566", "U+0537", "U+0567",
   "U+0538", "U+0568", "U+0539", "U+0569", "U+053A", "U+056A",
   "U+053B", "U+056B", "U+053C", "U+056C", "U+053D", "U+056D",
   "U+053E", "U+056E", "U+053F", "U+056F", "U+0540", "U+0570",
   "U+0541", "U+0571", "U+0542", "U+0572", "U+0543", "U+0573",
   "U+0544", "U+0574", "U+0545", "U+0575", "U+0546", "U+0576",
   "U+0547", "U+0577", "U+0548", "U+0578", "U+0549", "U+0579",
   "U+054A", "U+057A", "U+054B", "U+057B", "U+054C", "U+057C",
   "U+054D", "U+057D", "U+054E", "U+057E", "U+054F", "U+057F",
   "U+0550", "U+0580", "U+0551", "U+0581", "U+0552", "U+0582",
   "U+0553", "U+0583", "U+0554", "U+0584", "U+0555", "U+0585",
   "U+0556", "U+0586", "U+10A0", "U+2D00", "U+10A1", "U+2D01",
   "U+10A2", "U+2D02", "U+10A3", "U+2D03", "U+10A4", "U+2D04",
   "U+10A5", "U+2D05", "U+10A6", "U+2D06", "U+10A7", "U+2D07",
   "U+10A8", "U+2D08", "U+10A9", "U+2D09", "U+10AA", "U+2D0A",
   "U+10AB", "U+2D0B", "U+10AC", "U+2D0C", "U+10AD", "U+2D0D",
   "U+10AE", "U+2D0E", "U+10AF", "U+2D0F", "U+10B0", "U+2D10",
   "U+10B1", "U+2D11", "U+10B2", "U+2D12", "U+10B3", "U+2D13",
   "U+10B4", "U+2D14", "U+10B5", "U+2D15", "U+10B6", "U+2D16",
   "U+10B7", "U+2D17", "U+10B8", "U+2D18", "U+10B9", "U+2D19",
   "U+10BA", "U+2D1A", "U+10BB", "U+2D1B", "U+10BC", "U+2D1C",
   "U+10BD", "U+2D1D", "U+10BE", "U+2D1E", "U+10BF", "U+2D1F",
   "U+10C0", "U+2D20", "U+10C1", "U+2D21", "U+10C2", "U+2D22",
   "U+10C3", "U+2D23", "U+10C4", "U+2D24", "U+10C5", "U+2D25",
   "U+10C7", "U+2D27", "U+10CD", "U+2D2D", "U+13A0", "U+AB70",
   "U+13A1", "U+AB71", "U+13A2", "U+AB72", "U+13A3", "U+AB73",
   "U+13A4", "U+AB74", "U+13A5", "U+AB75", "U+13A6", "U+AB76",
   "U+13A7", "U+AB77", "U+13A8", "U+AB78", "U+13A9", "U+AB79",
   "U+13AA", "U+AB7A", "U+13AB", "U+AB7B", "U+13AC", "U+AB7C",
   "U+13AD", "U+AB7D", "U+13AE", "U+AB7E", "U+13AF", "U+AB7F",
   "U+13B0", "U+AB80", "U+13B1", "U+AB81", "U+13B2", "U+AB82",
   "U+13B3", "U+AB83", "U+13B4", "U+AB84", "U+13B5", "U+AB85",
   "U+13B6", "U+AB86", "U+13B7", "U+AB87", "U+13B8", "U+AB88",
   "U+13B9", "U+AB89", "U+13BA", "U+AB8A", "U+13BB", "U+AB8B",
   "U+13BC", "U+AB8C", "U+13BD", "U+AB8D", "U+13BE", "U+AB8E",
   "U+13BF", "U+AB8F", "U+13C0", "U+AB90", "U+13C1", "U+AB91",
   "U+13C2", "U+AB92", "U+13C3", "U+AB93", "U+13C4", "U+AB94",
   "U+13C5", "U+AB95", "U+13C6", "U+AB96", "U+13C7", "U+AB97",
   "U+13C8", "U+AB98", "U+13C9", "U+AB99", "U+13CA", "U+AB9A",
   "U+13CB", "U+AB9B", "U+13CC", "U+AB9C", "U+13CD", "U+AB9D",
   "U+13CE", "U+AB9E", "U+13CF", "U+AB9F", "U+13D0", "U+ABA0",
   "U+13D1", "U+ABA1", "U+13D2", "U+ABA2", "U+13D3", "U+ABA3",
   "U+13D4", "U+ABA4", "U+13D5", "U+ABA5", "U+13D6", "U+ABA6",
   "U+13D7", "U+ABA7", "U+13D8", "U+ABA8", "U+13D9", "U+ABA9",
   "U+13DA", "U+ABAA", "U+13DB", "U+ABAB", "U+13DC", "U+ABAC",
   "U+13DD", "U+ABAD", "U+13DE", "U+ABAE", "U+13DF", "U+ABAF",
   "U+13E0", "U+ABB0", "U+13E1", "U+ABB1", "U+13E2", "U+ABB2",
   "U+13E3", "U+ABB3", "U+13E4", "U+ABB4", "U+13E5", "U+ABB5",
   "U+13E6", "U+ABB6", "U+13E7", "U+ABB7", "U+13E8", "U+ABB8",
   "U+13E9", "U+ABB9", "U+13EA", "U+ABBA", "U+13EB", "U+ABBB",
   "U+13EC", "U+ABBC", "U+13ED", "U+ABBD", "U+13EE", "U+ABBE",
   "U+13EF", "U+ABBF", "U+13F0", "U+13F8", "U+13F1", "U+13F9",
   "U+13F2", "U+13FA", "U+13F3", "U+13FB", "U+13F4", "U+13FC",
   "U+13F5", "U+13FD", "U+1C89", "U+1C8A", "U+1C90", "U+10D0",
   "U+1C91", "U+10D1", "U+1C92", "U+10D2", "U+1C93", "U+10D3",
   "U+1C94", "U+10D4", "U+1C95", "U+10D5", "U+1C96", "U+10D6",
   "U+1C97", "U+10D7", "U+1C98", "U+10D8", "U+1C99", "U+10D9",
   "U+1C9A", "U+10DA", "U+1C9B", "U+10DB", "U+1C9C", "U+10DC",
   "U+1C9D", "U+10DD", "U+1C9E", "U+10DE", "U+1C9F", "U+10DF",
   "U+1CA0", "U+10E0", "U+1CA1", "U+10E1", "U+1CA2", "U+10E2",
   "U+1CA3", "U+10E3", "U+1CA4", "U+10E4", "U+1CA5", "U+10E5",
   "U+1CA6", "U+10E6", "U+1CA7", "U+10E7", "U+1CA8", "U+10E8",
   "U+1CA9", "U+10E9", "U+1CAA", "U+10EA", "U+1CAB", "U+10EB",
   "U+1CAC", "U+10EC", "U+1CAD", "U+10ED", "U+1CAE", "U+10EE",
   "U+1CAF", "U+10EF", "U+1CB0", "U+10F0", "U+1CB1", "U+10F1",
   "U+1CB2", "U+10F2", "U+1CB3", "U+10F3", "U+1CB4", "U+10F4",
   "U+1CB5", "U+10F5", "U+1CB6", "U+10F6", "U+1CB7", "U+10F7",
   "U+1CB8", "U+10F8", "U+1CB9", "U+10F9", "U+1CBA", "U+10FA",
   "U+1CBD", "U+10FD", "U+1CBE", "U+10FE", "U+1CBF", "U+10FF",
   "U+1E00", "U+1E01", "U+1E02", "U+1E03", "U+1E04", "U+1E05",
   "U+1E06", "U+1E07", "U+1E08", "U+1E09", "U+1E0A", "U+1E0B",
   "U+1E0C", "U+1E0D", "U+1E0E", "U+1E0F", "U+1E10", "U+1E11",
   "U+1E12", "U+1E13", "U+1E14", "U+1E15", "U+1E16", "U+1E17",
   "U+1E18", "U+1E19", "U+1E1A", "U+1E1B", "U+1E1C", "U+1E1D",
   "U+1E1E", "U+1E1F", "U+1E20", "U+1E21", "U+1E22", "U+1E23",
   "U+1E24", "U+1E25", "U+1E26", "U+1E27", "U+1E28", "U+1E29",
   "U+1E2A", "U+1E2B", "U+1E2C", "U+1E2D", "U+1E2E", "U+1E2F",
   "U+1E30", "U+1E31", "U+1E32", "U+1E33", "U+1E34", "U+1E35",
   "U+1E36", "U+1E37", "U+1E38", "U+1E39", "U+1E3A", "U+1E3B",
   "U+1E3C", "U+1E3D", "U+1E3E", "U+1E3F", "U+1E40", "U+1E41",
   "U+1E42", "U+1E43", "U+1E44", "U+1E45", "U+1E46", "U+1E47",
   "U+1E48", "U+1E49", "U+1E4A", "U+1E4B", "U+1E4C", "U+1E4D",
   "U+1E4E", "U+1E4F", "U+1E50", "U+1E51", "U+1E52", "U+1E53",
   "U+1E54", "U+1E55", "U+1E56", "U+1E57", "U+1E58", "U+1E59",
   "U+1E5A", "U+1E5B", "U+1E5C", "U+1E5D", "U+1E5E", "U+1E5F",
   "U+1E60", "U+1E61", "U+1E62", "U+1E63", "U+1E64", "U+1E65",
   "U+1E66", "U+1E67", "U+1E68", "U+1E69", "U+1E6A", "U+1E6B",
   "U+1E6C", "U+1E6D", "U+1E6E", "U+1E6F", "U+1E70", "U+1E71",
   "U+1E72", "U+1E73", "U+1E74", "U+1E75", "U+1E76", "U+1E77",
   "U+1E78", "U+1E79", "U+1E7A", "U+1E7B", "U+1E7C", "U+1E7D",
   "U+1E7E", "U+1E7F", "U+1E80", "U+1E81", "U+1E82", "U+1E83",
   "U+1E84", "U+1E85", "U+1E86", "U+1E87", "U+1E88", "U+1E89",
   "U+1E8A", "U+1E8B", "U+1E8C", "U+1E8D", "U+1E8E", "U+1E8F",
   "U+1E90", "U+1E91", "U+1E92", "U+1E93", "U+1E94", "U+1E95",
   "U+1E9E", "ß", "U+1EA0", "U+1EA1", "U+1EA2", "U+1EA3",
   "U+1EA4", "U+1EA5", "U+1EA6", "U+1EA7", "U+1EA8", "U+1EA9",
   "U+1EAA", "U+1EAB", "U+1EAC", "U+1EAD", "U+1EAE", "U+1EAF",
   "U+1EB0", "U+1EB1", "U+1EB2", "U+1EB3", "U+1EB4", "U+1EB5",
   "U+1EB6", "U+1EB7", "U+1EB8", "U+1EB9", "U+1EBA", "U+1EBB",
   "U+1EBC", "U+1EBD", "U+1EBE", "U+1EBF", "U+1EC0", "U+1EC1",
   "U+1EC2", "U+1EC3", "U+1EC4", "U+1EC5", "U+1EC6", "U+1EC7",
   "U+1EC8", "U+1EC9", "U+1ECA", "U+1ECB", "U+1ECC", "U+1ECD",
   "U+1ECE", "U+1ECF", "U+1ED0", "U+1ED1", "U+1ED2", "U+1ED3",
   "U+1ED4", "U+1ED5", "U+1ED6", "U+1ED7", "U+1ED8", "U+1ED9",
   "U+1EDA", "U+1EDB", "U+1EDC", "U+1EDD", "U+1EDE", "U+1EDF",
   "U+1EE0", "U+1EE1", "U+1EE2", "U+1EE3", "U+1EE4", "U+1EE5",
   "U+1EE6", "U+1EE7", "U+1EE8", "U+1EE9", "U+1EEA", "U+1EEB",
   "U+1EEC", "U+1EED", "U+1EEE", "U+1EEF", "U+1EF0", "U+1EF1",
   "U+1EF2", "U+1EF3", "U+1EF4", "U+1EF5", "U+1EF6", "U+1EF7",
   "U+1EF8", "U+1EF9", "U+1EFA", "U+1EFB", "U+1EFC", "U+1EFD",
   "U+1EFE", "U+1EFF", "U+1F08", "U+1F00", "U+1F09", "U+1F01",
   "U+1F0A", "U+1F02", "U+1F0B", "U+1F03", "U+1F0C", "U+1F04",
   "U+1F0D", "U+1F05", "U+1F0E", "U+1F06", "U+1F0F", "U+1F07",
   "U+1F18", "U+1F10", "U+1F19", "U+1F11", "U+1F1A", "U+1F12",
   "U+1F1B", "U+1F13", "U+1F1C", "U+1F14", "U+1F1D", "U+1F15",
   "U+1F28", "U+1F20", "U+1F29", "U+1F21", "U+1F2A", "U+1F22",
   "U+1F2B", "U+1F23", "U+1F2C", "U+1F24", "U+1F2D", "U+1F25",
   "U+1F2E", "U+1F26", "U+1F2F", "U+1F27", "U+1F38", "U+1F30",
   "U+1F39", "U+1F31", "U+1F3A", "U+1F32", "U+1F3B", "U+1F33",
   "U+1F3C", "U+1F34", "U+1F3D", "U+1F35", "U+1F3E", "U+1F36",
   "U+1F3F", "U+1F37", "U+1F48", "U+1F40", "U+1F49", "U+1F41",
   "U+1F4A", "U+1F42", "U+1F4B", "U+1F43", "U+1F4C", "U+1F44",
   "U+1F4D", "U+1F45", "U+1F59", "U+1F51", "U+1F5B", "U+1F53",
   "U+1F5D", "U+1F55", "U+1F5F", "U+1F57", "U+1F68", "U+1F60",
   "U+1F69", "U+1F61", "U+1F6A", "U+1F62", "U+1F6B", "U+1F63",
   "U+1F6C", "U+1F64", "U+1F6D", "U+1F65", "U+1F6E", "U+1F66",
   "U+1F6F", "U+1F67", "U+1F88", "U+1F80", "U+1F89", "U+1F81",
   "U+1F8A", "U+1F82", "U+1F8B", "U+1F83", "U+1F8C", "U+1F84",
   "U+1F8D", "U+1F85", "U+1F8E", "U+1F86", "U+1F8F", "U+1F87",
   "U+1F98", "U+1F90", "U+1F99", "U+1F91", "U+1F9A", "U+1F92",
   "U+1F9B", "U+1F93", "U+1F9C", "U+1F94", "U+1F9D", "U+1F95",
   "U+1F9E", "U+1F96", "U+1F9F", "U+1F97", "U+1FA8", "U+1FA0",
   "U+1FA9", "U+1FA1", "U+1FAA", "U+1FA2", "U+1FAB", "U+1FA3",
   "U+1FAC", "U+1FA4", "U+1FAD", "U+1FA5", "U+1FAE", "U+1FA6",
   "U+1FAF", "U+1FA7", "U+1FB8", "U+1FB0", "U+1FB9", "U+1FB1",
   "U+1FBA", "U+1F70", "U+1FBB", "U+1F71", "U+1FBC", "U+1FB3",
   "U+1FC8", "U+1F72", "U+1FC9", "U+1F73", "U+1FCA", "U+1F74",
   "U+1FCB", "U+1F75", "U+1FCC", "U+1FC3", "U+1FD8", "U+1FD0",
   "U+1FD9", "U+1FD1", "U+1FDA", "U+1F76", "U+1FDB", "U+1F77",
   "U+1FE8", "U+1FE0", "U+1FE9", "U+1FE1", "U+1FEA", "U+1F7A",
   "U+1FEB", "U+1F7B", "U+1FEC", "U+1FE5", "U+1FF8", "U+1F78",
   "U+1FF9", "U+1F79", "U+1FFA", "U+1F7C", "U+1FFB", "U+1F7D",
   "U+1FFC", "U+1FF3", "U+2126", "U+03C9", "U+212A", "k", "U+212B", "å",
   "U+2132", "U+214E", "U+2160", "U+2170", "U+2161", "U+2171",
   "U+2162", "U+2172", "U+2163", "U+2173", "U+2164", "U+2174",
   "U+2165", "U+2175", "U+2166", "U+2176", "U+2167", "U+2177",
   "U+2168", "U+2178", "U+2169", "U+2179", "U+216A", "U+217A",
   "U+216B", "U+217B", "U+216C", "U+217C", "U+216D", "U+217D",
   "U+216E", "U+217E", "U+216F", "U+217F", "U+2183", "U+2184",
   "U+24B6", "U+24D0", "U+24B7", "U+24D1", "U+24B8", "U+24D2",
   "U+24B9", "U+24D3", "U+24BA", "U+24D4", "U+24BB", "U+24D5",
   "U+24BC", "U+24D6", "U+24BD", "U+24D7", "U+24BE", "U+24D8",
   "U+24BF", "U+24D9", "U+24C0", "U+24DA", "U+24C1", "U+24DB",
   "U+24C2", "U+24DC", "U+24C3", "U+24DD", "U+24C4", "U+24DE",
   "U+24C5", "U+24DF", "U+24C6", "U+24E0", "U+24C7", "U+24E1",
   "U+24C8", "U+24E2", "U+24C9", "U+24E3", "U+24CA", "U+24E4",
   "U+24CB", "U+24E5", "U+24CC", "U+24E6", "U+24CD", "U+24E7",
   "U+24CE", "U+24E8", "U+24CF", "U+24E9", "U+2C00", "U+2C30",
   "U+2C01", "U+2C31", "U+2C02", "U+2C32", "U+2C03", "U+2C33",
   "U+2C04", "U+2C34", "U+2C05", "U+2C35", "U+2C06", "U+2C36",
   "U+2C07", "U+2C37", "U+2C08", "U+2C38", "U+2C09", "U+2C39",
   "U+2C0A", "U+2C3A", "U+2C0B", "U+2C3B", "U+2C0C", "U+2C3C",
   "U+2C0D", "U+2C3D", "U+2C0E", "U+2C3E", "U+2C0F", "U+2C3F",
   "U+2C10", "U+2C40", "U+2C11", "U+2C41", "U+2C12", "U+2C42",
   "U+2C13", "U+2C43", "U+2C14", "U+2C44", "U+2C15", "U+2C45",
   "U+2C16", "U+2C46", "U+2C17", "U+2C47", "U+2C18", "U+2C48",
   "U+2C19", "U+2C49", "U+2C1A", "U+2C4A", "U+2C1B", "U+2C4B",
   "U+2C1C", "U+2C4C", "U+2C1D", "U+2C4D", "U+2C1E", "U+2C4E",
   "U+2C1F", "U+2C4F", "U+2C20", "U+2C50", "U+2C21", "U+2C51",
   "U+2C22", "U+2C52", "U+2C23", "U+2C53", "U+2C24", "U+2C54",
   "U+2C25", "U+2C55", "U+2C26", "U+2C56", "U+2C27", "U+2C57",
   "U+2C28", "U+2C58", "U+2C29", "U+2C59", "U+2C2A", "U+2C5A",
   "U+2C2B", "U+2C5B", "U+2C2C", "U+2C5C", "U+2C2D", "U+2C5D",
   "U+2C2E", "U+2C5E", "U+2C2F", "U+2C5F", "U+2C60", "U+2C61",
   "U+2C62", "U+026B", "U+2C63", "U+1D7D", "U+2C64", "U+027D",
   "U+2C67", "U+2C68", "U+2C69", "U+2C6A", "U+2C6B", "U+2C6C",
   "U+2C6D", "U+0251", "U+2C6E", "U+0271", "U+2C6F", "U+0250",
   "U+2C70", "U+0252", "U+2C72", "U+2C73", "U+2C75", "U+2C76",
   "U+2C7E", "U+023F", "U+2C7F", "U+0240", "U+2C80", "U+2C81",
   "U+2C82", "U+2C83", "U+2C84", "U+2C85", "U+2C86", "U+2C87",
   "U+2C88", "U+2C89", "U+2C8A", "U+2C8B", "U+2C8C", "U+2C8D",
   "U+2C8E", "U+2C8F", "U+2C90", "U+2C91", "U+2C92", "U+2C93",
   "U+2C94", "U+2C95", "U+2C96", "U+2C97", "U+2C98", "U+2C99",
   "U+2C9A", "U+2C9B", "U+2C9C", "U+2C9D", "U+2C9E", "U+2C9F",
   "U+2CA0", "U+2CA1", "U+2CA2", "U+2CA3", "U+2CA4", "U+2CA5",
   "U+2CA6", "U+2CA7", "U+2CA8", "U+2CA9", "U+2CAA", "U+2CAB",
   "U+2CAC", "U+2CAD", "U+2CAE", "U+2CAF", "U+2CB0", "U+2CB1",
   "U+2CB2", "U+2CB3", "U+2CB4", "U+2CB5", "U+2CB6", "U+2CB7",
   "U+2CB8", "U+2CB9", "U+2CBA", "U+2CBB", "U+2CBC", "U+2CBD",
   "U+2CBE", "U+2CBF", "U+2CC0", "U+2CC1", "U+2CC2", "U+2CC3",
   "U+2CC4", "U+2CC5", "U+2CC6", "U+2CC7", "U+2CC8", "U+2CC9",
   "U+2CCA", "U+2CCB", "U+2CCC", "U+2CCD", "U+2CCE", "U+2CCF",
   "U+2CD0", "U+2CD1", "U+2CD2", "U+2CD3", "U+2CD4", "U+2CD5",
   "U+2CD6", "U+2CD7", "U+2CD8", "U+2CD9", "U+2CDA", "U+2CDB",
   "U+2CDC", "U+2CDD", "U+2CDE", "U+2CDF", "U+2CE0", "U+2CE1",
   "U+2CE2", "U+2CE3", "U+2CEB", "U+2CEC", "U+2CED", "U+2CEE",
   "U+2CF2", "U+2CF3", "U+A640", "U+A641", "U+A642", "U+A643",
   "U+A644", "U+A645", "U+A646", "U+A647", "U+A648", "U+A649",
   "U+A64A", "U+A64B", "U+A64C", "U+A64D", "U+A64E", "U+A64F",
   "U+A650", "U+A651", "U+A652", "U+A653", "U+A654", "U+A655",
   "U+A656", "U+A657", "U+A658", "U+A659", "U+A65A", "U+A65B",
   "U+A65C", "U+A65D", "U+A65E", "U+A65F", "U+A660", "U+A661",
   "U+A662", "U+A663", "U+A664", "U+A665", "U+A666", "U+A667",
   "U+A668", "U+A669", "U+A66A", "U+A66B", "U+A66C", "U+A66D",
   "U+A680", "U+A681", "U+A682", "U+A683", "U+A684", "U+A685",
   "U+A686", "U+A687", "U+A688", "U+A689", "U+A68A", "U+A68B",
   "U+A68C", "U+A68D", "U+A68E", "U+A68F", "U+A690", "U+A691",
   "U+A692", "U+A693", "U+A694", "U+A695", "U+A696", "U+A697",
   "U+A698", "U+A699", "U+A69A", "U+A69B", "U+A722", "U+A723",
   "U+A724", "U+A725", "U+A726", "U+A727", "U+A728", "U+A729",
   "U+A72A", "U+A72B", "U+A72C", "U+A72D", "U+A72E", "U+A72F",
   "U+A732", "U+A733", "U+A734", "U+A735", "U+A736", "U+A737",
   "U+A738", "U+A739", "U+A73A", "U+A73B", "U+A73C", "U+A73D",
   "U+A73E", "U+A73F", "U+A740", "U+A741", "U+A742", "U+A743",
   "U+A744", "U+A745", "U+A746", "U+A747", "U+A748", "U+A749",
   "U+A74A", "U+A74B", "U+A74C", "U+A74D", "U+A74E", "U+A74F",
   "U+A750", "U+A751", "U+A752", "U+A753", "U+A754", "U+A755",
   "U+A756", "U+A757", "U+A758", "U+A759", "U+A75A", "U+A75B",
   "U+A75C", "U+A75D", "U+A75E", "U+A75F", "U+A760", "U+A761",
   "U+A762", "U+A763", "U+A764", "U+A765", "U+A766", "U+A767",
   "U+A768", "U+A769", "U+A76A", "U+A76B", "U+A76C", "U+A76D",
   "U+A76E", "U+A76F", "U+A779", "U+A77A", "U+A77B", "U+A77C",
   "U+A77D", "U+1D79", "U+A77E", "U+A77F", "U+A780", "U+A781",
   "U+A782", "U+A783", "U+A784", "U+A785", "U+A786", "U+A787",
   "U+A78B", "U+A78C", "U+A78D", "U+0265", "U+A790", "U+A791",
   "U+A792", "U+A793", "U+A796", "U+A797", "U+A798", "U+A799",
   "U+A79A", "U+A79B", "U+A79C", "U+A79D", "U+A79E", "U+A79F",
   "U+A7A0", "U+A7A1", "U+A7A2", "U+A7A3", "U+A7A4", "U+A7A5",
   "U+A7A6", "U+A7A7", "U+A7A8", "U+A7A9", "U+A7AA", "U+0266",
   "U+A7AB", "U+025C", "U+A7AC", "U+0261", "U+A7AD", "U+026C",
   "U+A7AE", "U+026A", "U+A7B0", "U+029E", "U+A7B1", "U+0287",
   "U+A7B2", "U+029D", "U+A7B3", "U+AB53", "U+A7B4", "U+A7B5",
   "U+A7B6", "U+A7B7", "U+A7B8", "U+A7B9", "U+A7BA", "U+A7BB",
   "U+A7BC", "U+A7BD", "U+A7BE", "U+A7BF", "U+A7C0", "U+A7C1",
   "U+A7C2", "U+A7C3", "U+A7C4", "U+A794", "U+A7C5", "U+0282",
   "U+A7C6", "U+1D8E", "U+A7C7", "U+A7C8", "U+A7C9", "U+A7CA",
   "U+A7CB", "U+0264", "U+A7CC", "U+A7CD", "U+A7CE", "U+A7CF",
   "U+A7D0", "U+A7D1", "U+A7D2", "U+A7D3", "U+A7D4", "U+A7D5",
   "U+A7D6", "U+A7D7", "U+A7D8", "U+A7D9", "U+A7DA", "U+A7DB",
   "U+A7DC", "U+019B", "U+A7F5", "U+A7F6", "U+FF21", "U+FF41",
   "U+FF22", "U+FF42", "U+FF23", "U+FF43", "U+FF24", "U+FF44",
   "U+FF25", "U+FF45", "U+FF26", "U+FF46", "U+FF27", "U+FF47",
   "U+FF28", "U+FF48", "U+FF29", "U+FF49", "U+FF2A", "U+FF4A",
   "U+FF2B", "U+FF4B", "U+FF2C", "U+FF4C", "U+FF2D", "U+FF4D",
   "U+FF2E", "U+FF4E", "U+FF2F", "U+FF4F", "U+FF30", "U+FF50",
   "U+FF31", "U+FF51", "U+FF32", "U+FF52", "U+FF33", "U+FF53",
   "U+FF34", "U+FF54", "U+FF35", "U+FF55", "U+FF36", "U+FF56",
   "U+FF37", "U+FF57", "U+FF38", "U+FF58", "U+FF39", "U+FF59",
   "U+FF3A", "U+FF5A">>
LowerAboveSet == KeysOf(LowerAboveTable, 2, 1)

\* toLowerCase of the surrogate pairs it changes, as in UpperPairTable.
LowerPairTable ==
  <<"U+D801", "U+DC00", "U+DC28", "U+D801", "U+DC01", "U+DC29",
   "U+D801", "U+DC02", "U+DC2A", "U+D801", "U+DC03", "U+DC2B",
   "U+D801", "U+DC04", "U+DC2C", "U+D801", "U+DC05", "U+DC2D",
   "U+D801", "U+DC06", "U+DC2E", "U+D801", "U+DC07", "U+DC2F",
   "U+D801", "U+DC08", "U+DC30", "U+D801", "U+DC09", "U+DC31",
   "U+D801", "U+DC0A", "U+DC32", "U+D801", "U+DC0B", "U+DC33",
   "U+D801", "U+DC0C", "U+DC34", "U+D801", "U+DC0D", "U+DC35",
   "U+D801", "U+DC0E", "U+DC36", "U+D801", "U+DC0F", "U+DC37",
   "U+D801", "U+DC10", "U+DC38", "U+D801", "U+DC11", "U+DC39",
   "U+D801", "U+DC12", "U+DC3A", "U+D801", "U+DC13", "U+DC3B",
   "U+D801", "U+DC14", "U+DC3C", "U+D801", "U+DC15", "U+DC3D",
   "U+D801", "U+DC16", "U+DC3E", "U+D801", "U+DC17", "U+DC3F",
   "U+D801", "U+DC18", "U+DC40", "U+D801", "U+DC19", "U+DC41",
   "U+D801", "U+DC1A", "U+DC42", "U+D801", "U+DC1B", "U+DC43",
   "U+D801", "U+DC1C", "U+DC44", "U+D801", "U+DC1D", "U+DC45",
   "U+D801", "U+DC1E", "U+DC46", "U+D801", "U+DC1F", "U+DC47",
   "U+D801", "U+DC20", "U+DC48", "U+D801", "U+DC21", "U+DC49",
   "U+D801", "U+DC22", "U+DC4A", "U+D801", "U+DC23", "U+DC4B",
   "U+D801", "U+DC24", "U+DC4C", "U+D801", "U+DC25", "U+DC4D",
   "U+D801", "U+DC26", "U+DC4E", "U+D801", "U+DC27", "U+DC4F",
   "U+D801", "U+DCB0", "U+DCD8", "U+D801", "U+DCB1", "U+DCD9",
   "U+D801", "U+DCB2", "U+DCDA", "U+D801", "U+DCB3", "U+DCDB",
   "U+D801", "U+DCB4", "U+DCDC", "U+D801", "U+DCB5", "U+DCDD",
   "U+D801", "U+DCB6", "U+DCDE", "U+D801", "U+DCB7", "U+DCDF",
   "U+D801", "U+DCB8", "U+DCE0", "U+D801", "U+DCB9", "U+DCE1",
   "U+D801", "U+DCBA", "U+DCE2", "U+D801", "U+DCBB", "U+DCE3",
   "U+D801", "U+DCBC", "U+DCE4", "U+D801", "U+DCBD", "U+DCE5",
   "U+D801", "U+DCBE", "U+DCE6", "U+D801", "U+DCBF", "U+DCE7",
   "U+D801", "U+DCC0", "U+DCE8", "U+D801", "U+DCC1", "U+DCE9",
   "U+D801", "U+DCC2", "U+DCEA", "U+D801", "U+DCC3", "U+DCEB",
   "U+D801", "U+DCC4", "U+DCEC", "U+D801", "U+DCC5", "U+DCED",
   "U+D801", "U+DCC6", "U+DCEE", "U+D801", "U+DCC7", "U+DCEF",
   "U+D801", "U+DCC8", "U+DCF0", "U+D801", "U+DCC9", "U+DCF1",
   "U+D801", "U+DCCA", "U+DCF2", "U+D801", "U+DCCB", "U+DCF3",
   "U+D801", "U+DCCC", "U+DCF4", "U+D801", "U+DCCD", "U+DCF5",
   "U+D801", "U+DCCE", "U+DCF6", "U+D801", "U+DCCF", "U+DCF7",
   "U+D801", "U+DCD0", "U+DCF8", "U+D801", "U+DCD1", "U+DCF9",
   "U+D801", "U+DCD2", "U+DCFA", "U+D801", "U+DCD3", "U+DCFB",
   "U+D801", "U+DD70", "U+DD97", "U+D801", "U+DD71", "U+DD98",
   "U+D801", "U+DD72", "U+DD99", "U+D801", "U+DD73", "U+DD9A",
   "U+D801", "U+DD74", "U+DD9B", "U+D801", "U+DD75", "U+DD9C",
   "U+D801", "U+DD76", "U+DD9D", "U+D801", "U+DD77", "U+DD9E",
   "U+D801", "U+DD78", "U+DD9F", "U+D801", "U+DD79", "U+DDA0",
   "U+D801", "U+DD7A", "U+DDA1", "U+D801", "U+DD7C", "U+DDA3",
   "U+D801", "U+DD7D", "U+DDA4", "U+D801", "U+DD7E", "U+DDA5",
   "U+D801", "U+DD7F", "U+DDA6", "U+D801", "U+DD80", "U+DDA7",
   "U+D801", "U+DD81", "U+DDA8", "U+D801", "U+DD82", "U+DDA9",
   "U+D801", "U+DD83", "U+DDAA", "U+D801", "U+DD84", "U+DDAB",
   "U+D801", "U+DD85", "U+DDAC", "U+D801", "U+DD86", "U+DDAD",
   "U+D801", "U+DD87", "U+DDAE", "U+D801", "U+DD88", "U+DDAF",
   "U+D801", "U+DD89", "U+DDB0", "U+D801", "U+DD8A", "U+DDB1",
   "U+D801", "U+DD8C", "U+DDB3", "U+D801", "U+DD8D", "U+DDB4",
   "U+D801", "U+DD8E", "U+DDB5", "U+D801", "U+DD8F", "U+DDB6",
   "U+D801", "U+DD90", "U+DDB7", "U+D801", "U+DD91", "U+DDB8",
   "U+D801", "U+DD92", "U+DDB9", "U+D801", "U+DD94", "U+DDBB",
   "U+D801", "U+DD95", "U+DDBC", "U+D803", "U+DC80", "U+DCC0",
   "U+D803", "U+DC81", "U+DCC1", "U+D803", "U+DC82", "U+DCC2",
   "U+D803", "U+DC83", "U+DCC3", "U+D803", "U+DC84", "U+DCC4",
   "U+D803", "U+DC85", "U+DCC5", "U+D803", "U+DC86", "U+DCC6",
   "U+D803", "U+DC87", "U+DCC7", "U+D803", "U+DC88", "U+DCC8",
   "U+D803", "U+DC89", "U+DCC9", "U+D803", "U+DC8A", "U+DCCA",
   "U+D803", "U+DC8B", "U+DCCB", "U+D803", "U+DC8C", "U+DCCC",
   "U+D803", "U+DC8D", "U+DCCD", "U+D803", "U+DC8E", "U+DCCE",
   "U+D803", "U+DC8F", "U+DCCF", "U+D803", "U+DC90", "U+DCD0",
   "U+D803", "U+DC91", "U+DCD1", "U+D803", "U+DC92", "U+DCD2",
   "U+D803", "U+DC93", "U+DCD3", "U+D803", "U+DC94", "U+DCD4",
   "U+D803", "U+DC95", "U+DCD5", "U+D803", "U+DC96", "U+DCD6",
   "U+D803", "U+DC97", "U+DCD7", "U+D803", "U+DC98", "U+DCD8",
   "U+D803", "U+DC99", "U+DCD9", "U+D803", "U+DC9A", "U+DCDA",
   "U+D803", "U+DC9B", "U+DCDB", "U+D803", "U+DC9C", "U+DCDC",
   "U+D803", "U+DC9D", "U+DCDD", "U+D803", "U+DC9E", "U+DCDE",
   "U+D803", "U+DC9F", "U+DCDF", "U+D803", "U+DCA0", "U+DCE0",
   "U+D803", "U+DCA1", "U+DCE1", "U+D803", "U+DCA2", "U+DCE2",
   "U+D803", "U+DCA3", "U+DCE3", "U+D803", "U+DCA4", "U+DCE4",
   "U+D803", "U+DCA5", "U+DCE5", "U+D803", "U+DCA6", "U+DCE6",
   "U+D803", "U+DCA7", "U+DCE7", "U+D803", "U+DCA8", "U+DCE8",
   "U+D803", "U+DCA9", "U+DCE9", "U+D803", "U+DCAA", "U+DCEA",
   "U+D803", "U+DCAB", "U+DCEB", "U+D803", "U+DCAC", "U+DCEC",
   "U+D803", "U+DCAD", "U+DCED", "U+D803", "U+DCAE", "U+DCEE",
   "U+D803", "U+DCAF", "U+DCEF", "U+D803", "U+DCB0", "U+DCF0",
   "U+D803", "U+DCB1", "U+DCF1", "U+D803", "U+DCB2", "U+DCF2",
   "U+D803", "U+DD50", "U+DD70", "U+D803", "U+DD51", "U+DD71",
   "U+D803", "U+DD52", "U+DD72", "U+D803", "U+DD53", "U+DD73",
   "U+D803", "U+DD54", "U+DD74", "U+D803", "U+DD55", "U+DD75",
   "U+D803", "U+DD56", "U+DD76", "U+D803", "U+DD57", "U+DD77",
   "U+D803", "U+DD58", "U+DD78", "U+D803", "U+DD59", "U+DD79",
   "U+D803", "U+DD5A", "U+DD7A", "U+D803", "U+DD5B", "U+DD7B",
   "U+D803", "U+DD5C", "U+DD7C", "U+D803", "U+DD5D", "U+DD7D",
   "U+D803", "U+DD5E", "U+DD7E", "U+D803", "U+DD5F", "U+DD7F",
   "U+D803", "U+DD60", "U+DD80", "U+D803", "U+DD61", "U+DD81",
   "U+D803", "U+DD62", "U+DD82", "U+D803", "U+DD63", "U+DD83",
   "U+D803", "U+DD64", "U+DD84", "U+D803", "U+DD65", "U+DD85",
   "U+D806", "U+DCA0", "U+DCC0", "U+D806", "U+DCA1", "U+DCC1",
   "U+D806", "U+DCA2", "U+DCC2", "U+D806", "U+DCA3", "U+DCC3",
   "U+D806", "U+DCA4", "U+DCC4", "U+D806", "U+DCA5", "U+DCC5",
   "U+D806", "U+DCA6", "U+DCC6", "U+D806", "U+DCA7", "U+DCC7",
   "U+D806", "U+DCA8", "U+DCC8", "U+D806", "U+DCA9", "U+DCC9",
   "U+D806", "U+DCAA", "U+DCCA", "U+D806", "U+DCAB", "U+DCCB",
   "U+D806", "U+DCAC", "U+DCCC", "U+D806", "U+DCAD", "U+DCCD",
   "U+D806", "U+DCAE", "U+DCCE", "U+D806", "U+DCAF", "U+DCCF",
   "U+D806", "U+DCB0", "U+DCD0", "U+D806", "U+DCB1", "U+DCD1",
   "U+D806", "U+DCB2", "U+DCD2", "U+D806", "U+DCB3", "U+DCD3",
   "U+D806", "U+DCB4", "U+DCD4", "U+D806", "U+DCB5", "U+DCD5",
   "U+D806", "U+DCB6", "U+DCD6", "U+D806", "U+DCB7", "U+DCD7",
   "U+D806", "U+DCB8", "U+DCD8", "U+D806", "U+DCB9", "U+DCD9",
   "U+D806", "U+DCBA", "U+DCDA", "U+D806", "U+DCBB", "U+DCDB",
   "U+D806", "U+DCBC", "U+DCDC", "U+D806", "U+DCBD", "U+DCDD",
   "U+D806", "U+DCBE", "U+DCDE", "U+D806", "U+DCBF", "U+DCDF",
   "U+D81B", "U+DE40", "U+DE60", "U+D81B", "U+DE41", "U+DE61",
   "U+D81B", "U+DE42", "U+DE62", "U+D81B", "U+DE43", "U+DE63",
   "U+D81B", "U+DE44", "U+DE64", "U+D81B", "U+DE45", "U+DE65",
   "U+D81B", "U+DE46", "U+DE66", "U+D81B", "U+DE47", "U+DE67",
   "U+D81B", "U+DE48", "U+DE68", "U+D81B", "U+DE49", "U+DE69",
   "U+D81B", "U+DE4A", "U+DE6A", "U+D81B", "U+DE4B", "U+DE6B",
   "U+D81B", "U+DE4C", "U+DE6C", "U+D81B", "U+DE4D", "U+DE6D",
   "U+D81B", "U+DE4E", "U+DE6E", "U+D81B", "U+DE4F", "U+DE6F",
   "U+D81B", "U+DE50", "U+DE70", "U+D81B", "U+DE51", "U+DE71",
   "U+D81B", "U+DE52", "U+DE72", "U+D81B", "U+DE53", "U+DE73",
   "U+D81B", "U+DE54", "U+DE74", "U+D81B", "U+DE55", "U+DE75",
   "U+D81B", "U+DE56", "U+DE76", "U+D81B", "U+DE57", "U+DE77",
   "U+D81B", "U+DE58", "U+DE78", "U+D81B", "U+DE59", "U+DE79",
   "U+D81B", "U+DE5A", "U+DE7A", "U+D81B", "U+DE5B", "U+DE7B",
   "U+D81B", "U+DE5C", "U+DE7C", "U+D81B", "U+DE5D", "U+DE7D",
   "U+D81B", "U+DE5E", "U+DE7E", "U+D81B", "U+DE5F", "U+DE7F",
   "U+D81B", "U+DEA0", "U+DEBB", "U+D81B", "U+DEA1", "U+DEBC",
   "U+D81B", "U+DEA2", "U+DEBD", "U+D81B", "U+DEA3", "U+DEBE",
   "U+D81B", "U+DEA4", "U+DEBF", "U+D81B", "U+DEA5", "U+DEC0",
   "U+D81B", "U+DEA6", "U+DEC1", "U+D81B", "U+DEA7", "U+DEC2",
   "U+D81B", "U+DEA8", "U+DEC3", "U+D81B", "U+DEA9", "U+DEC4",
   "U+D81B", "U+DEAA", "U+DEC5", "U+D81B", "U+DEAB", "U+DEC6",
   "U+D81B", "U+DEAC", "U+DEC7", "U+D81B", "U+DEAD", "U+DEC8",
   "U+D81B", "U+DEAE", "U+DEC9", "U+D81B", "U+DEAF", "U+DECA",
   "U+D81B", "U+DEB0", "U+DECB", "U+D81B", "U+DEB1", "U+DECC",
   "U+D81B", "U+DEB2", "U+DECD", "U+D81B", "U+DEB3", "U+DECE",
   "U+D81B", "U+DEB4", "U+DECF", "U+D81B", "U+DEB5", "U+DED0",
   "U+D81B", "U+DEB6", "U+DED1", "U+D81B", "U+DEB7", "U+DED2",
   "U+D81B", "U+DEB8", "U+DED3", "U+D83A", "U+DD00", "U+DD22",
   "U+D83A", "U+DD01", "U+DD23", "U+D83A", "U+DD02", "U+DD24",
   "U+D83A", "U+DD03", "U+DD25", "U+D83A", "U+DD04", "U+DD26",
   "U+D83A", "U+DD05", "U+DD27", "U+D83A", "U+DD06", "U+DD28",
   "U+D83A", "U+DD07", "U+DD29", "U+D83A", "U+DD08", "U+DD2A",
   "U+D83A", "U+DD09", "U+DD2B", "U+D83A", "U+DD0A", "U+DD2C",
   "U+D83A", "U+DD0B", "U+DD2D", "U+D83A", "U+DD0C", "U+DD2E",
   "U+D83A", "U+DD0D", "U+DD2F", "U+D83A", "U+DD0E", "U+DD30",
   "U+D83A", "U+DD0F", "U+DD31", "U+D83A", "U+DD10", "U+DD32",
   "U+D83A", "U+DD11", "U+DD33", "U+D83A", "U+DD12", "U+DD34",
   "U+D83A", "U+DD13", "U+DD35", "U+D83A", "U+DD14", "U+DD36",
   "U+D83A", "U+DD15", "U+DD37", "U+D83A", "U+DD16", "U+DD38",
   "U+D83A", "U+DD17", "U+DD39", "U+D83A", "U+DD18", "U+DD3A",
   "U+D83A", "U+DD19", "U+DD3B", "U+D83A", "U+DD1A", "U+DD3C",
   "U+D83A", "U+DD1B", "U+DD3D", "U+D83A", "U+DD1C", "U+DD3E",
   "U+D83A", "U+DD1D", "U+DD3F", "U+D83A", "U+DD1E", "U+DD40",
   "U+D83A", "U+DD1F", "U+DD41", "U+D83A", "U+DD20", "U+DD42",
   "U+D83A", "U+DD21", "U+DD43">>
LowerPairSet == KeysOf(LowerPairTable, 3, 2)

\* Case_Ignorable code units: what the Final_Sigma condition skips.
CaseIgnorableSet ==
  {"'", ".", ":", "^", "U+0060", "¨", "­", "¯", "´", "·", "¸", "U+02B0",
   "U+02B1", "U+02B2", "U+02B3", "U+02B4", "U+02B5", "U+02B6", "U+02B7",
   "U+02B8", "U+02B9", "U+02BA", "U+02BB", "U+02BC", "U+02BD", "U+02BE",
   "U+02BF", "U+02C0", "U+02C1", "U+02C2", "U+02C3", "U+02C4", "U+02C5",
   "U+02C6", "U+02C7", "U+02C8", "U+02C9", "U+02CA", "U+02CB", "U+02CC",
   "U+02CD", "U+02CE", "U+02CF", "U+02D0", "U+02D1", "U+02D2", "U+02D3",
   "U+02D4", "U+02D5", "U+02D6", "U+02D7", "U+02D8", "U+02D9", "U+02DA",
   "U+02DB", "U+02DC", "U+02DD", "U+02DE", "U+02DF", "U+02E0", "U+02E1",
   "U+02E2", "U+02E3", "U+02E4", "U+02E5", "U+02E6", "U+02E7", "U+02E8",
   "U+02E9", "U+02EA", "U+02EB", "U+02EC", "U+02ED", "U+02EE", "U+02EF",
   "U+02F0", "U+02F1", "U+02F2", "U+02F3", "U+02F4", "U+02F5", "U+02F6",
   "U+02F7", "U+02F8", "U+02F9", "U+02FA", "U+02FB", "U+02FC", "U+02FD",
   "U+02FE", "U+02FF", "U+0300", "U+0301", "U+0302", "U+0303", "U+0304",
   "U+0305", "U+0306", "U+0307", "U+0308", "U+0309", "U+030A", "U+030B",
   "U+030C", "U+030D", "U+030E", "U+030F", "U+0310", "U+0311", "U+0312",
   "U+0313", "U+0314", "U+0315", "U+0316", "U+0317", "U+0318", "U+0319",
   "U+031A", "U+031B", "U+031C", "U+031D", "U+031E", "U+031F", "U+0320",
   "U+0321", "U+0322", "U+0323", "U+0324", "U+0325", "U+0326", "U+0327",
   "U+0328", "U+0329", "U+032A", "U+032B", "U+032C", "U+032D", "U+032E",
   "U+032F", "U+0330", "U+0331", "U+0332", "U+0333", "U+0334", "U+0335",
   "U+0336", "U+0337", "U+0338", "U+0339", "U+033A", "U+033B", "U+033C",
   "U+033D", "U+033E", "U+033F", "U+0340", "U+0341", "U+0342", "U+0343",
   "U+0344", "U+0345", "U+0346", "U+0347", "U+0348", "U+0349", "U+034A",
   "U+034B", "U+034C", "U+034D", "U+034E", "U+034F", "U+0350", "U+0351",
   "U+0352", "U+0353", "U+0354", "U+0355", "U+0356", "U+0357", "U+0358",
   "U+0359", "U+035A", "U+035B", "U+035C", "U+035D", "U+035E", "U+035F",
   "U+0360", "U+0361", "U+0362", "U+0363", "U+0364", "U+0365", "U+0366",
   "U+0367", "U+0368", "U+0369", "U+036A", "U+036B", "U+036C", "U+036D",
   "U+036E", "U+036F", "U+0374", "U+0375", "U+037A", "U+0384", "U+0385",
   "U+0387", "U+0483", "U+0484", "U+0485", "U+0486", "U+0487", "U+0488",
   "U+0489", "U+0559", "U+055F", "U+0591", "U+0592", "U+0593", "U+0594",
   "U+0595", "U+0596", "U+0597", "U+0598", "U+0599", "U+059A", "U+059B",
   "U+059C", "U+059D", "U+059E", "U+059F", "U+05A0", "U+05A1", "U+05A2",
   "U+05A3", "U+05A4", "U+05A5", "U+05A6", "U+05A7", "U+05A8", "U+05A9",
   "U+05AA", "U+05AB", "U+05AC", "U+05AD", "U+05AE", "U+05AF", "U+05B0",
   "U+05B1", "U+05B2", "U+05B3", "U+05B4", "U+05B5", "U+05B6", "U+05B7",
   "U+05B8", "U+05B9", "U+05BA", "U+05BB", "U+05BC", "U+05BD", "U+05BF",
   "U+05C1", "U+05C2", "U+05C4", "U+05C5", "U+05C7", "U+05F4", "U+0600",
   "U+0601", "U+0602", "U+0603", "U+0604", "U+0605", "U+0610", "U+0611",
   "U+0612", "U+0613", "U+0614", "U+0615", "U+0616", "U+0617", "U+0618",
   "U+0619", "U+061A", "U+061C", "U+0640", "U+064B", "U+064C", "U+064D",
   "U+064E", "U+064F", "U+0650", "U+0651", "U+0652", "U+0653", "U+0654",
   "U+0655", "U+0656", "U+0657", "U+0658", "U+0659", "U+065A", "U+065B",
   "U+065C", "U+065D", "U+065E", "U+065F", "U+0670", "U+06D6", "U+06D7",
   "U+06D8", "U+06D9", "U+06DA", "U+06DB", "U+06DC", "U+06DD", "U+06DF",
   "U+06E0", "U+06E1", "U+06E2", "U+06E3", "U+06E4", "U+06E5", "U+06E6",
   "U+06E7", "U+06E8", "U+06EA", "U+06EB", "U+06EC", "U+06ED", "U+070F",
   "U+0711", "U+0730", "U+0731", "U+0732", "U+0733", "U+0734", "U+0735",
   "U+0736", "U+0737", "U+0738", "U+0739", "U+073A", "U+073B", "U+073C",
   "U+073D", "U+073E", "U+073F", "U+0740", "U+0741", "U+0742", "U+0743",
   "U+0744", "U+0745", "U+0746", "U+0747", "U+0748", "U+0749", "U+074A",
   "U+07A6", "U+07A7", "U+07A8", "U+07A9", "U+07AA", "U+07AB", "U+07AC",
   "U+07AD", "U+07AE", "U+07AF", "U+07B0", "U+07EB", "U+07EC", "U+07ED",
   "U+07EE", "U+07EF", "U+07F0", "U+07F1", "U+07F2", "U+07F3", "U+07F4",
   "U+07F5", "U+07FA", "U+07FD", "U+0816", "U+0817", "U+0818", "U+0819",
   "U+081A", "U+081B", "U+081C", "U+081D", "U+081E", "U+081F", "U+0820",
   "U+0821", "U+0822", "U+0823", "U+0824", "U+0825", "U+0826", "U+0827",
   "U+0828", "U+0829", "U+082A", "U+082B", "U+082C", "U+082D", "U+0859",
   "U+085A", "U+085B", "U+0888", "U+0890", "U+0891", "U+0897", "U+0898",
   "U+0899", "U+089A", "U+089B", "U+089C", "U+089D", "U+089E", "U+089F",
   "U+08C9", "U+08CA", "U+08CB", "U+08CC", "U+08CD", "U+08CE", "U+08CF",
   "U+08D0", "U+08D1", "U+08D2", "U+08D3", "U+08D4", "U+08D5", "U+08D6",
   "U+08D7", "U+08D8", "U+08D9", "U+08DA", "U+08DB", "U+08DC", "U+08DD",
   "U+08DE", "U+08DF", "U+08E0", "U+08E1", "U+08E2", "U+08E3", "U+08E4",
   "U+08E5", "U+08E6", "U+08E7", "U+08E8", "U+08E9", "U+08EA", "U+08EB",
   "U+08EC", "U+08ED", "U+08EE", "U+08EF", "U+08F0", "U+08F1", "U+08F2",
   "U+08F3", "U+08F4", "U+08F5", "U+08F6", "U+08F7", "U+08F8", "U+08F9",
   "U+08FA", "U+08FB", "U+08FC", "U+08FD", "U+08FE", "U+08FF", "U+0900",
   "U+0901", "U+0902", "U+093A", "U+093C", "U+0941", "U+0942", "U+0943",
   "U+0944", "U+0945", "U+0946", "U+0947", "U+0948", "U+094D", "U+0951",
   "U+0952", "U+0953", "U+0954", "U+0955", "U+0956", "U+0957", "U+0962",
   "U+0963", "U+0971", "U+0981", "U+09BC", "U+09C1", "U+09C2", "U+09C3",
   "U+09C4", "U+09CD", "U+09E2", "U+09E3", "U+09FE", "U+0A01", "U+0A02",
   "U+0A3C", "U+0A41", "U+0A42", "U+0A47", "U+0A48", "U+0A4B", "U+0A4C",
   "U+0A4D", "U+0A51", "U+0A70", "U+0A71", "U+0A75", "U+0A81", "U+0A82",
   "U+0ABC", "U+0AC1", "U+0AC2", "U+0AC3", "U+0AC4", "U+0AC5", "U+0AC7",
   "U+0AC8", "U+0ACD", "U+0AE2", "U+0AE3", "U+0AFA", "U+0AFB", "U+0AFC",
   "U+0AFD", "U+0AFE", "U+0AFF", "U+0B01", "U+0B3C", "U+0B3F", "U+0B41",
   "U+0B42", "U+0B43", "U+0B44", "U+0B4D", "U+0B55", "U+0B56", "U+0B62",
   "U+0B63", "U+0B82", "U+0BC0", "U+0BCD", "U+0C00", "U+0C04", "U+0C3C",
   "U+0C3E", "U+0C3F", "U+0C40", "U+0C46", "U+0C47", "U+0C48", "U+0C4A",
   "U+0C4B", "U+0C4C", "U+0C4D", "U+0C55", "U+0C56", "U+0C62", "U+0C63",
   "U+0C81", "U+0CBC", "U+0CBF", "U+0CC6", "U+0CCC", "U+0CCD", "U+0CE2",
   "U+0CE3", "U+0D00", "U+0D01", "U+0D3B", "U+0D3C", "U+0D41", "U+0D42",
   "U+0D43", "U+0D44", "U+0D4D", "U+0D62", "U+0D63", "U+0D81", "U+0DCA",
   "U+0DD2", "U+0DD3", "U+0DD4", "U+0DD6", "U+0E31", "U+0E34", "U+0E35",
   "U+0E36", "U+0E37", "U+0E38", "U+0E39", "U+0E3A", "U+0E46", "U+0E47",
   "U+0E48", "U+0E49", "U+0E4A", "U+0E4B", "U+0E4C", "U+0E4D", "U+0E4E",
   "U+0EB1", "U+0EB4", "U+0EB5", "U+0EB6", "U+0EB7", "U+0EB8", "U+0EB9",
   "U+0EBA", "U+0EBB", "U+0EBC", "U+0EC6", "U+0EC8", "U+0EC9", "U+0ECA",
   "U+0ECB", "U+0ECC", "U+0ECD", "U+0ECE", "U+0F18", "U+0F19", "U+0F35",
   "U+0F37", "U+0F39", "U+0F71", "U+0F72", "U+0F73", "U+0F74", "U+0F75",
   "U+0F76", "U+0F77", "U+0F78", "U+0F79", "U+0F7A", "U+0F7B", "U+0F7C",
   "U+0F7D", "U+0F7E", "U+0F80", "U+0F81", "U+0F82", "U+0F83", "U+0F84",
   "U+0F86", "U+0F87", "U+0F8D", "U+0F8E", "U+0F8F", "U+0F90", "U+0F91",
   "U+0F92", "U+0F93", "U+0F94", "U+0F95", "U+0F96", "U+0F97", "U+0F99",
   "U+0F9A", "U+0F9B", "U+0F9C", "U+0F9D", "U+0F9E", "U+0F9F", "U+0FA0",
   "U+0FA1", "U+0FA2", "U+0FA3", "U+0FA4", "U+0FA5", "U+0FA6", "U+0FA7",
   "U+0FA8", "U+0FA9", "U+0FAA", "U+0FAB", "U+0FAC", "U+0FAD", "U+0FAE",
   "U+0FAF", "U+0FB0", "U+0FB1", "U+0FB2", "U+0FB3", "U+0FB4", "U+0FB5",
   "U+0FB6", "U+0FB7", "U+0FB8", "U+0FB9", "U+0FBA", "U+0FBB", "U+0FBC",
   "U+0FC6", "U+102D", "U+102E", "U+102F", "U+1030", "U+1032", "U+1033",
   "U+1034", "U+1035", "U+1036", "U+1037", "U+1039", "U+103A", "U+103D",
   "U+103E", "U+1058", "U+1059", "U+105E", "U+105F", "U+1060", "U+1071",
   "U+1072", "U+1073", "U+1074", "U+1082", "U+1085", "U+1086", "U+108D",
   "U+109D", "U+10FC", "U+135D", "U+135E", "U+135F", "U+1712", "U+1713",
   "U+1714", "U+1732", "U+1733", "U+1752", "U+1753", "U+1772", "U+1773",
   "U+17B4", "U+17B5", "U+17B7", "U+17B8", "U+17B9", "U+17BA", "U+17BB",
   "U+17BC", "U+17BD", "U+17C6", "U+17C9", "U+17CA", "U+17CB", "U+17CC",
   "U+17CD", "U+17CE", "U+17CF", "U+17D0", "U+17D1", "U+17D2", "U+17D3",
   "U+17D7", "U+17DD", "U+180B", "U+180C", "U+180D", "U+180E", "U+180F",
   "U+1843", "U+1885", "U+1886", "U+18A9", "U+1920", "U+1921", "U+1922",
   "U+1927", "U+1928", "U+1932", "U+1939", "U+193A", "U+193B", "U+1A17",
   "U+1A18", "U+1A1B", "U+1A56", "U+1A58", "U+1A59", "U+1A5A", "U+1A5B",
   "U+1A5C", "U+1A5D", "U+1A5E", "U+1A60", "U+1A62", "U+1A65", "U+1A66",
   "U+1A67", "U+1A68", "U+1A69", "U+1A6A", "U+1A6B", "U+1A6C", "U+1A73",
   "U+1A74", "U+1A75", "U+1A76", "U+1A77", "U+1A78", "U+1A79", "U+1A7A",
   "U+1A7B", "U+1A7C", "U+1A7F", "U+1AA7", "U+1AB0", "U+1AB1", "U+1AB2",
   "U+1AB3", "U+1AB4", "U+1AB5", "U+1AB6", "U+1AB7", "U+1AB8", "U+1AB9",
   "U+1ABA", "U+1ABB", "U+1ABC", "U+1ABD", "U+1ABE", "U+1ABF", "U+1AC0",
   "U+1AC1", "U+1AC2", "U+1AC3", "U+1AC4", "U+1AC5", "U+1AC6", "U+1AC7",
   "U+1AC8", "U+1AC9", "U+1ACA", "U+1ACB", "U+1ACC", "U+1ACD", "U+1ACE",
   "U+1ACF", "U+1AD0", "U+1AD1", "U+1AD2", "U+1AD3", "U+1AD4", "U+1AD5",
   "U+1AD6", "U+1AD7", "U+1AD8", "U+1AD9", "U+1ADA", "U+1ADB", "U+1ADC",
   "U+1ADD", "U+1AE0", "U+1AE1", "U+1AE2", "U+1AE3", "U+1AE4", "U+1AE5",
   "U+1AE6", "U+1AE7", "U+1AE8", "U+1AE9", "U+1AEA", "U+1AEB", "U+1B00",
   "U+1B01", "U+1B02", "U+1B03", "U+1B34", "U+1B36", "U+1B37", "U+1B38",
   "U+1B39", "U+1B3A", "U+1B3C", "U+1B42", "U+1B6B", "U+1B6C", "U+1B6D",
   "U+1B6E", "U+1B6F", "U+1B70", "U+1B71", "U+1B72", "U+1B73", "U+1B80",
   "U+1B81", "U+1BA2", "U+1BA3", "U+1BA4", "U+1BA5", "U+1BA8", "U+1BA9",
   "U+1BAB", "U+1BAC", "U+1BAD", "U+1BE6", "U+1BE8", "U+1BE9", "U+1BED",
   "U+1BEF", "U+1BF0", "U+1BF1", "U+1C2C", "U+1C2D", "U+1C2E", "U+1C2F",
   "U+1C30", "U+1C31", "U+1C32", "U+1C33", "U+1C36", "U+1C37", "U+1C78",
   "U+1C79", "U+1C7A", "U+1C7B", "U+1C7C", "U+1C7D", "U+1CD0", "U+1CD1",
   "U+1CD2", "U+1CD4", "U+1CD5", "U+1CD6", "U+1CD7", "U+1CD8", "U+1CD9",
   "U+1CDA", "U+1CDB", "U+1CDC", "U+1CDD", "U+1CDE", "U+1CDF", "U+1CE0",
   "U+1CE2", "U+1CE3", "U+1CE4", "U+1CE5", "U+1CE6", "U+1CE7", "U+1CE8",
   "U+1CED", "U+1CF4", "U+1CF8", "U+1CF9", "U+1D2C", "U+1D2D", "U+1D2E",
   "U+1D2F", "U+1D30", "U+1D31", "U+1D32", "U+1D33", "U+1D34", "U+1D35",
   "U+1D36", "U+1D37", "U+1D38", "U+1D39", "U+1D3A", "U+1D3B", "U+1D3C",
   "U+1D3D", "U+1D3E", "U+1D3F", "U+1D40", "U+1D41", "U+1D42", "U+1D43",
   "U+1D44", "U+1D45", "U+1D46", "U+1D47", "U+1D48", "U+1D49", "U+1D4A",
   "U+1D4B", "U+1D4C", "U+1D4D", "U+1D4E", "U+1D4F", "U+1D50", "U+1D51",
   "U+1D52", "U+1D53", "U+1D54", "U+1D55", "U+1D56", "U+1D57", "U+1D58",
   "U+1D59", "U+1D5A", "U+1D5B", "U+1D5C", "U+1D5D", "U+1D5E", "U+1D5F",
   "U+1D60", "U+1D61", "U+1D62", "U+1D63", "U+1D64", "U+1D65", "U+1D66",
   "U+1D67", "U+1D68", "U+1D69", "U+1D6A", "U+1D78", "U+1D9B", "U+1D9C",
   "U+1D9D", "U+1D9E", "U+1D9F", "U+1DA0", "U+1DA1", "U+1DA2", "U+1DA3",
   "U+1DA4", "U+1DA5", "U+1DA6", "U+1DA7", "U+1DA8", "U+1DA9", "U+1DAA",
   "U+1DAB", "U+1DAC", "U+1DAD", "U+1DAE", "U+1DAF", "U+1DB0", "U+1DB1",
   "U+1DB2", "U+1DB3", "U+1DB4", "U+1DB5", "U+1DB6", "U+1DB7", "U+1DB8",
   "U+1DB9", "U+1DBA", "U+1DBB", "U+1DBC", "U+1DBD", "U+1DBE", "U+1DBF",
   "U+1DC0", "U+1DC1", "U+1DC2", "U+1DC3", "U+1DC4", "U+1DC5", "U+1DC6",
   "U+1DC7", "U+1DC8", "U+1DC9", "U+1DCA", "U+1DCB", "U+1DCC", "U+1DCD",
   "U+1DCE", "U+1DCF", "U+1DD0", "U+1DD1", "U+1DD2", "U+1DD3", "U+1DD4",
   "U+1DD5", "U+1DD6", "U+1DD7", "U+1DD8", "U+1DD9", "U+1DDA", "U+1DDB",
   "U+1DDC", "U+1DDD", "U+1DDE", "U+1DDF", "U+1DE0", "U+1DE1", "U+1DE2",
   "U+1DE3", "U+1DE4", "U+1DE5", "U+1DE6", "U+1DE7", "U+1DE8", "U+1DE9",
   "U+1DEA", "U+1DEB", "U+1DEC", "U+1DED", "U+1DEE", "U+1DEF", "U+1DF0",
   "U+1DF1", "U+1DF2", "U+1DF3", "U+1DF4", "U+1DF5", "U+1DF6", "U+1DF7",
   "U+1DF8", "U+1DF9", "U+1DFA", "U+1DFB", "U+1DFC", "U+1DFD", "U+1DFE",
   "U+1DFF", "U+1FBD", "U+1FBF", "U+1FC0", "U+1FC1", "U+1FCD", "U+1FCE",
   "U+1FCF", "U+1FDD", "U+1FDE", "U+1FDF", "U+1FED", "U+1FEE", "U+1FEF",
   "U+1FFD", "U+1FFE", "U+200B", "U+200C", "U+200D", "U+200E", "U+200F",
   "U+2018", "U+2019", "U+2024", "U+2027", "U+202A", "U+202B", "U+202C",
   "U+202D", "U+202E", "U+2060", "U+2061", "U+2062", "U+2063", "U+2064",
   "U+2066", "U+2067", "U+2068", "U+2069", "U+206A", "U+206B", "U+206C",
   "U+206D", "U+206E", "U+206F", "U+2071", "U+207F", "U+2090", "U+2091",
   "U+2092", "U+2093", "U+2094", "U+2095", "U+2096", "U+2097", "U+2098",
   "U+2099", "U+209A", "U+209B", "U+209C", "U+20D0", "U+20D1", "U+20D2",
   "U+20D3", "U+20D4", "U+20D5", "U+20D6", "U+20D7", "U+20D8", "U+20D9",
   "U+20DA", "U+20DB", "U+20DC", "U+20DD", "U+20DE", "U+20DF", "U+20E0",
   "U+20E1", "U+20E2", "U+20E3", "U+20E4", "U+20E5", "U+20E6", "U+20E7",
   "U+20E8", "U+20E9", "U+20EA", "U+20EB", "U+20EC", "U+20ED", "U+20EE",
   "U+20EF", "U+20F0", "U+2C7C", "U+2C7D", "U+2CEF", "U+2CF0", "U+2CF1",
   "U+2D6F", "U+2D7F", "U+2DE0", "U+2DE1", "U+2DE2", "U+2DE3", "U+2DE4",
   "U+2DE5", "U+2DE6", "U+2DE7", "U+2DE8", "U+2DE9", "U+2DEA", "U+2DEB",
   "U+2DEC", "U+2DED", "U+2DEE", "U+2DEF", "U+2DF0", "U+2DF1", "U+2DF2",
   "U+2DF3", "U+2DF4", "U+2DF5", "U+2DF6", "U+2DF7", "U+2DF8", "U+2DF9",
   "U+2DFA", "U+2DFB", "U+2DFC", "U+2DFD", "U+2DFE", "U+2DFF", "U+2E2F",
   "U+3005", "U+302A", "U+302B", "U+302C", "U+302D", "U+3031", "U+3032",
   "U+3033", "U+3034", "U+3035", "U+303B", "U+3099", "U+309A", "U+309B",
   "U+309C", "U+309D", "U+309E", "U+30FC", "U+30FD", "U+30FE", "U+A015",
   "U+A4F8", "U+A4F9", "U+A4FA", "U+A4FB", "U+A4FC", "U+A4FD", "U+A60C",
   "U+A66F", "U+A670", "U+A671", "U+A672", "U+A674", "U+A675", "U+A676",
   "U+A677", "U+A678", "U+A679", "U+A67A", "U+A67B", "U+A67C", "U+A67D",
   "U+A67F", "U+A69C", "U+A69D", "U+A69E", "U+A69F", "U+A6F0", "U+A6F1",
   "U+A700", "U+A701", "U+A702", "U+A703", "U+A704", "U+A705", "U+A706",
   "U+A707", "U+A708", "U+A709", "U+A70A", "U+A70B", "U+A70C", "U+A70D",
   "U+A70E", "U+A70F", "U+A710", "U+A711", "U+A712", "U+A713", "U+A714",
   "U+A715", "U+A716", "U+A717", "U+A718", "U+A719", "U+A71A", "U+A71B",
   "U+A71C", "U+A71D", "U+A71E", "U+A71F", "U+A720", "U+A721", "U+A770",
   "U+A788", "U+A789", "U+A78A", "U+A7F1", "U+A7F2", "U+A7F3", "U+A7F4",
   "U+A7F8", "U+A7F9", "U+A802", "U+A806", "U+A80B", "U+A825", "U+A826",
   "U+A82C", "U+A8C4", "U+A8C5", "U+A8E0", "U+A8E1", "U+A8E2", "U+A8E3",
   "U+A8E4", "U+A8E5", "U+A8E6", "U+A8E7", "U+A8E8", "U+A8E9", "U+A8EA",
   "U+A8EB", "U+A8EC", "U+A8ED", "U+A8EE", "U+A8EF", "U+A8F0", "U+A8F1",
   "U+A8FF", "U+A926", "U+A927", "U+A928", "U+A929", "U+A92A", "U+A92B",
   "U+A92C", "U+A92D", "U+A947", "U+A948", "U+A949", "U+A94A", "U+A94B",
   "U+A94C", "U+A94D", "U+A94E", "U+A94F", "U+A950", "U+A951", "U+A980",
   "U+A981", "U+A982", "U+A9B3", "U+A9B6", "U+A9B7", "U+A9B8", "U+A9B9",
   "U+A9BC", "U+A9BD", "U+A9CF", "U+A9E5", "U+A9E6", "U+AA29", "U+AA2A",
   "U+AA2B", "U+AA2C", "U+AA2D", "U+AA2E", "U+AA31", "U+AA32", "U+AA35",
   "U+AA36", "U+AA43", "U+AA4C", "U+AA70", "U+AA7C", "U+AAB0", "U+AAB2",
   "U+AAB3", "U+AAB4", "U+AAB7", "U+AAB8", "U+AABE", "U+AABF", "U+AAC1",
   "U+AADD", "U+AAEC", "U+AAED", "U+AAF3", "U+AAF4", "U+AAF6", "U+AB5B",
   "U+AB5C", "U+AB5D", "U+AB5E", "U+AB5F", "U+AB69", "U+AB6A", "U+AB6B",
   "U+ABE5", "U+ABE8", "U+ABED", "U+FB1E", "U+FBB2", "U+FBB3", "U+FBB4",
   "U+FBB5", "U+FBB6", "U+FBB7", "U+FBB8", "U+FBB9", "U+FBBA", "U+FBBB",
   "U+FBBC", "U+FBBD", "U+FBBE", "U+FBBF", "U+FBC0", "U+FBC1", "U+FBC2",
   "U+FE00", "U+FE01", "U+FE02", "U+FE03", "U+FE04", "U+FE05", "U+FE06",
   "U+FE07", "U+FE08", "U+FE09", "U+FE0A", "U+FE0B", "U+FE0C", "U+FE0D",
   "U+FE0E", "U+FE0F", "U+FE13", "U+FE20", "U+FE21", "U+FE22", "U+FE23",
   "U+FE24", "U+FE25", "U+FE26", "U+FE27", "U+FE28", "U+FE29", "U+FE2A",
   "U+FE2B", "U+FE2C", "U+FE2D", "U+FE2E", "U+FE2F", "U+FE52", "U+FE55",
   "U+FEFF", "U+FF07", "U+FF0E", "U+FF1A", "U+FF3E", "U+FF40", "U+FF70",
   "U+FF9E", "U+FF9F", "U+FFE3", "U+FFF9", "U+FFFA", "U+FFFB"}

\* Cased code units that are not Case_Ignorable.
CasedSet ==
  {"A", "B", "C", "D", "E", "F", "G", "H", "I", "J", "K", "L", "M", "N",
   "O", "P", "Q", "R", "S", "T", "U", "V", "W", "X", "Y", "Z", "a", "b",
   "c", "d", "e", "f", "g", "h", "i", "j", "k", "l", "m", "n", "o", "p",
   "q", "r", "s", "t", "u", "v", "w", "x", "y", "z", "ª", "µ", "º", "À",
   "Á", "Â", "Ã", "Ä", "Å", "Æ", "Ç", "È", "É", "Ê", "Ë", "Ì", "Í", "Î",
   "Ï", "Ð", "Ñ", "Ò", "Ó", "Ô", "Õ", "Ö", "Ø", "Ù", "Ú", "Û", "Ü", "Ý",
   "Þ", "ß", "à", "á", "â", "ã", "ä", "å", "æ", "ç", "è", "é", "ê", "ë",
   "ì", "í", "î", "ï", "ð", "ñ", "ò", "ó", "ô", "õ", "ö", "ø", "ù", "ú",
   "û", "ü", "ý", "þ", "ÿ", "U+0100", "U+0101", "U+0102", "U+0103",
   "U+0104", "U+0105", "U+0106", "U+0107", "U+0108", "U+0109", "U+010A",
   "U+010B", "U+010C", "U+010D", "U+010E", "U+010F", "U+0110", "U+0111",
   "U+0112", "U+0113", "U+0114", "U+0115", "U+0116", "U+0117", "U+0118",
   "U+0119", "U+011A", "U+011B", "U+011C", "U+011D", "U+011E", "U+011F",
   "U+0120", "U+0121", "U+0122", "U+0123", "U+0124", "U+0125", "U+0126",
   "U+0127", "U+0128", "U+0129", "U+012A", "U+012B", "U+012C", "U+012D",
   "U+012E", "U+012F", "U+0130", "U+0131", "U+0132", "U+0133", "U+0134",
   "U+0135", "U+0136", "U+0137", "U+0138", "U+0139", "U+013A", "U+013B",
   "U+013C", "U+013D", "U+013E", "U+013F", "U+0140", "U+0141", "U+0142",
   "U+0143", "U+0144", "U+0145", "U+0146", "U+0147", "U+0148", "U+0149",
   "U+014A", "U+014B", "U+014C", "U+014D", "U+014E", "U+014F", "U+0150",
   "U+0151", "U+0152", "U+0153", "U+0154", "U+0155", "U+0156", "U+0157",
   "U+0158", "U+0159", "U+015A", "U+015B", "U+015C", "U+015D", "U+015E",
   "U+015F", "U+0160", "U+0161", "U+0162", "U+0163", "U+0164", "U+0165",
   "U+0166", "U+0167", "U+0168", "U+0169", "U+016A", "U+016B", "U+016C",
   "U+016D", "U+016E", "U+016F", "U+0170", "U+0171", "U+0172", "U+0173",
   "U+0174", "U+0175", "U+0176", "U+0177", "U+0178", "U+0179", "U+017A",
   "U+017B", "U+017C", "U+017D", "U+017E", "U+017F", "U+0180", "U+0181",
   "U+0182", "U+0183", "U+0184", "U+0185", "U+0186", "U+0187", "U+0188",
   "U+0189", "U+018A", "U+018B", "U+018C", "U+018D", "U+018E", "U+018F",
   "U+0190", "U+0191", "U+0192", "U+0193", "U+0194", "U+0195", "U+0196",
   "U+0197", "U+0198", "U+0199", "U+019A", "U+019B", "U+019C", "U+019D",
   "U+019E", "U+019F", "U+01A0", "U+01A1", "U+01A2", "U+01A3", "U+01A4",
   "U+01A5", "U+01A6", "U+01A7", "U+01A8", "U+01A9", "U+01AA", "U+01AB",
   "U+01AC", "U+01AD", "U+01AE", "U+01AF", "U+01B0", "U+01B1", "U+01B2",
   "U+01B3", "U+01B4", "U+01B5", "U+01B6", "U+01B7", "U+01B8", "U+01B9",
   "U+01BA", "U+01BC", "U+01BD", "U+01BE", "U+01BF", "U+01C4", "U+01C5",
   "U+01C6", "U+01C7", "U+01C8", "U+01C9", "U+01CA", "U+01CB", "U+01CC",
   "U+01CD", "U+01CE", "U+01CF", "U+01D0", "U+01D1", "U+01D2", "U+01D3",
   "U+01D4", "U+01D5", "U+01D6", "U+01D7", "U+01D8", "U+01D9", "U+01DA",
   "U+01DB", "U+01DC", "U+01DD", "U+01DE", "U+01DF", "U+01E0", "U+01E1",
   "U+01E2", "U+01E3", "U+01E4", "U+01E5", "U+01E6", "U+01E7", "U+01E8",
   "U+01E9", "U+01EA", "U+01EB", "U+01EC", "U+01ED", "U+01EE", "U+01EF",
   "U+01F0", "U+01F1", "U+01F2", "U+01F3", "U+01F4", "U+01F5", "U+01F6",
   "U+01F7", "U+01F8", "U+01F9", "U+01FA", "U+01FB", "U+01FC", "U+01FD",
   "U+01FE", "U+01FF", "U+0200", "U+0201", "U+0202", "U+0203", "U+0204",
   "U+0205", "U+0206", "U+0207", "U+0208", "U+0209", "U+020A", "U+020B",
   "U+020C", "U+020D", "U+020E", "U+020F", "U+0210", "U+0211", "U+0212",
   "U+0213", "U+0214", "U+0215", "U+0216", "U+0217", "U+0218", "U+0219",
   "U+021A", "U+021B", "U+021C", "U+021D", "U+021E", "U+021F", "U+0220",
   "U+0221", "U+0222", "U+0223", "U+0224", "U+0225", "U+0226", "U+0227",
   "U+0228", "U+0229", "U+022A", "U+022B", "U+022C", "U+022D", "U+022E",
   "U+022F", "U+0230", "U+0231", "U+0232", "U+0233", "U+0234", "U+0235",
   "U+0236", "U+0237", "U+0238", "U+0239", "U+023A", "U+023B", "U+023C",
   "U+023D", "U+023E", "U+023F", "U+0240", "U+0241", "U+0242", "U+0243",
   "U+0244", "U+0245", "U+0246", "U+0247", "U+0248", "U+0249", "U+024A",
   "U+024B", "U+024C", "U+024D", "U+024E", "U+024F", "U+0250", "U+0251",
   "U+0252", "U+0253", "U+0254", "U+0255", "U+0256", "U+0257", "U+0258",
   "U+0259", "U+025A", "U+025B", "U+025C", "U+025D", "U+025E", "U+025F",
   "U+0260", "U+0261", "U+0262", "U+0263", "U+0264", "U+0265", "U+0266",
   "U+0267", "U+0268", "U+0269", "U+026A", "U+026B", "U+026C", "U+026D",
   "U+026E", "U+026F", "U+0270", "U+0271", "U+0272", "U+0273", "U+0274",
   "U+0275", "U+0276", "U+0277", "U+0278", "U+0279", "U+027A", "U+027B",
   "U+027C", "U+027D", "U+027E", "U+027F", "U+0280", "U+0281", "U+0282",
   "U+0283", "U+0284", "U+0285", "U+0286", "U+0287", "U+0288", "U+0289",
   "U+028A", "U+028B", "U+028C", "U+028D", "U+028E", "U+028F", "U+0290",
   "U+0291", "U+0292", "U+0293", "U+0296", "U+0297", "U+0298", "U+0299",
   "U+029A", "U+029B", "U+029C", "U+029D", "U+029E", "U+029F", "U+02A0",
   "U+02A1", "U+02A2", "U+02A3", "U+02A4", "U+02A5", "U+02A6", "U+02A7",
   "U+02A8", "U+02A9", "U+02AA", "U+02AB", "U+02AC", "U+02AD", "U+02AE",
   "U+02AF", "U+0370", "U+0371", "U+0372", "U+0373", "U+0376", "U+0377",
   "U+037B", "U+037C", "U+037D", "U+037F", "U+0386", "U+0388", "U+0389",
   "U+038A", "U+038C", "U+038E", "U+038F", "U+0390", "U+0391", "U+0392",
   "U+0393", "U+0394", "U+0395", "U+0396", "U+0397", "U+0398", "U+0399",
   "U+039A", "U+039B", "U+039C", "U+039D", "U+039E", "U+039F", "U+03A0",
   "U+03A1", "U+03A3", "U+03A4", "U+03A5", "U+03A6", "U+03A7", "U+03A8",
   "U+03A9", "U+03AA", "U+03AB", "U+03AC", "U+03AD", "U+03AE", "U+03AF",
   "U+03B0", "U+03B1", "U+03B2", "U+03B3", "U+03B4", "U+03B5", "U+03B6",
   "U+03B7", "U+03B8", "U+03B9", "U+03BA", "U+03BB", "U+03BC", "U+03BD",
   "U+03BE", "U+03BF", "U+03C0", "U+03C1", "U+03C2", "U+03C3", "U+03C4",
   "U+03C5", "U+03C6", "U+03C7", "U+03C8", "U+03C9", "U+03CA", "U+03CB",
   "U+03CC", "U+03CD", "U+03CE", "U+03CF", "U+03D0", "U+03D1", "U+03D2",
   "U+03D3", "U+03D4", "U+03D5", "U+03D6", "U+03D7", "U+03D8", "U+03D9",
   "U+03DA", "U+03DB", "U+03DC", "U+03DD", "U+03DE", "U+03DF", "U+03E0",
   "U+03E1", "U+03E2", "U+03E3", "U+03E4", "U+03E5", "U+03E6", "U+03E7",
   "U+03E8", "U+03E9", "U+03EA", "U+03EB", "U+03EC", "U+03ED", "U+03EE",
   "U+03EF", "U+03F0", "U+03F1", "U+03F2", "U+03F3", "U+03F4", "U+03F5",
   "U+03F7", "U+03F8", "U+03F9", "U+03FA", "U+03FB", "U+03FC", "U+03FD",
   "U+03FE", "U+03FF", "U+0400", "U+0401", "U+0402", "U+0403", "U+0404",
   "U+0405", "U+0406", "U+0407", "U+0408", "U+0409", "U+040A", "U+040B",
   "U+040C", "U+040D", "U+040E", "U+040F", "U+0410", "U+0411", "U+0412",
   "U+0413", "U+0414", "U+0415", "U+0416", "U+0417", "U+0418", "U+0419",
   "U+041A", "U+041B", "U+041C", "U+041D", "U+041E", "U+041F", "U+0420",
   "U+0421", "U+0422", "U+0423", "U+0424", "U+0425", "U+0426", "U+0427",
   "U+0428", "U+0429", "U+042A", "U+042B", "U+042C", "U+042D", "U+042E",
   "U+042F", "U+0430", "U+0431", "U+0432", "U+0433", "U+0434", "U+0435",
   "U+0436", "U+0437", "U+0438", "U+0439", "U+043A", "U+043B", "U+043C",
   "U+043D", "U+043E", "U+043F", "U+0440", "U+0441", "U+0442", "U+0443",
   "U+0444", "U+0445", "U+0446", "U+0447", "U+0448", "U+0449", "U+044A",
   "U+044B", "U+044C", "U+044D", "U+044E", "U+044F", "U+0450", "U+0451",
   "U+0452", "U+0453", "U+0454", "U+0455", "U+0456", "U+0457", "U+0458",
   "U+0459", "U+045A", "U+045B", "U+045C", "U+045D", "U+045E", "U+045F",
   "U+0460", "U+0461", "U+0462", "U+0463", "U+0464", "U+0465", "U+0466",
   "U+0467", "U+0468", "U+0469", "U+046A", "U+046B", "U+046C", "U+046D",
   "U+046E", "U+046F", "U+0470", "U+0471", "U+0472", "U+0473", "U+0474",
   "U+0475", "U+0476", "U+0477", "U+0478", "U+0479", "U+047A", "U+047B",
   "U+047C", "U+047D", "U+047E", "U+047F", "U+0480", "U+0481", "U+048A",
   "U+048B", "U+048C", "U+048D", "U+048E", "U+048F", "U+0490", "U+0491",
   "U+0492", "U+0493", "U+0494", "U+0495", "U+0496", "U+0497", "U+0498",
   "U+0499", "U+049A", "U+049B", "U+049C", "U+049D", "U+049E", "U+049F",
   "U+04A0", "U+04A1", "U+04A2", "U+04A3", "U+04A4", "U+04A5", "U+04A6",
   "U+04A7", "U+04A8", "U+04A9", "U+04AA", "U+04AB", "U+04AC", "U+04AD",
   "U+04AE", "U+04AF", "U+04B0", "U+04B1", "U+04B2", "U+04B3", "U+04B4",
   "U+04B5", "U+04B6", "U+04B7", "U+04B8", "U+04B9", "U+04BA", "U+04BB",
   "U+04BC", "U+04BD", "U+04BE", "U+04BF", "U+04C0", "U+04C1", "U+04C2",
   "U+04C3", "U+04C4", "U+04C5", "U+04C6", "U+04C7", "U+04C8", "U+04C9",
   "U+04CA", "U+04CB", "U+04CC", "U+04CD", "U+04CE", "U+04CF", "U+04D0",
   "U+04D1", "U+04D2", "U+04D3", "U+04D4", "U+04D5", "U+04D6", "U+04D7",
   "U+04D8", "U+04D9", "U+04DA", "U+04DB", "U+04DC", "U+04DD", "U+04DE",
   "U+04DF", "U+04E0", "U+04E1", "U+04E2", "U+04E3", "U+04E4", "U+04E5",
   "U+04E6", "U+04E7", "U+04E8", "U+04E9", "U+04EA", "U+04EB", "U+04EC",
   "U+04ED", "U+04EE", "U+04EF", "U+04F0", "U+04F1", "U+04F2", "U+04F3",
   "U+04F4", "U+04F5", "U+04F6", "U+04F7", "U+04F8", "U+04F9", "U+04FA",
   "U+04FB", "U+04FC", "U+04FD", "U+04FE", "U+04FF", "U+0500", "U+0501",
   "U+0502", "U+0503", "U+0504", "U+0505", "U+0506", "U+0507", "U+0508",
   "U+0509", "U+050A", "U+050B", "U+050C", "U+050D", "U+050E", "U+050F",
   "U+0510", "U+0511", "U+0512", "U+0513", "U+0514", "U+0515", "U+0516",
   "U+0517", "U+0518", "U+0519", "U+051A", "U+051B", "U+051C", "U+051D",
   "U+051E", "U+051F", "U+0520", "U+0521", "U+0522", "U+0523", "U+0524",
   "U+0525", "U+0526", "U+0527", "U+0528", "U+0529", "U+052A", "U+052B",
   "U+052C", "U+052D", "U+052E", "U+052F", "U+0531", "U+0532", "U+0533",
   "U+0534", "U+0535", "U+0536", "U+0537", "U+0538", "U+0539", "U+053A",
   "U+053B", "U+053C", "U+053D", "U+053E", "U+053F", "U+0540", "U+0541",
   "U+0542", "U+0543", "U+0544", "U+0545", "U+0546", "U+0547", "U+0548",
   "U+0549", "U+054A", "U+054B", "U+054C", "U+054D", "U+054E", "U+054F",
   "U+0550", "U+0551", "U+0552", "U+0553", "U+0554", "U+0555", "U+0556",
   "U+0560", "U+0561", "U+0562", "U+0563", "U+0564", "U+0565", "U+0566",
   "U+0567", "U+0568", "U+0569", "U+056A", "U+056B", "U+056C", "U+056D",
   "U+056E", "U+056F", "U+0570", "U+0571", "U+0572", "U+0573", "U+0574",
   "U+0575", "U+0576", "U+0577", "U+0578", "U+0579", "U+057A", "U+057B",
   "U+057C", "U+057D", "U+057E", "U+057F", "U+0580", "U+0581", "U+0582",
   "U+0583", "U+0584", "U+0585", "U+0586", "U+0587", "U+0588", "U+10A0",
   "U+10A1", "U+10A2", "U+10A3", "U+10A4", "U+10A5", "U+10A6", "U+10A7",
   "U+10A8", "U+10A9", "U+10AA", "U+10AB", "U+10AC", "U+10AD", "U+10AE",
   "U+10AF", "U+10B0", "U+10B1", "U+10B2", "U+10B3", "U+10B4", "U+10B5",
   "U+10B6", "U+10B7", "U+10B8", "U+10B9", "U+10BA", "U+10BB", "U+10BC",
   "U+10BD", "U+10BE", "U+10BF", "U+10C0", "U+10C1", "U+10C2", "U+10C3",
   "U+10C4", "U+10C5", "U+10C7", "U+10CD", "U+10D0", "U+10D1", "U+10D2",
   "U+10D3", "U+10D4", "U+10D5", "U+10D6", "U+10D7", "U+10D8", "U+10D9",
   "U+10DA", "U+10DB", "U+10DC", "U+10DD", "U+10DE", "U+10DF", "U+10E0",
   "U+10E1", "U+10E2", "U+10E3", "U+10E4", "U+10E5", "U+10E6", "U+10E7",
   "U+10E8", "U+10E9", "U+10EA", "U+10EB", "U+10EC", "U+10ED", "U+10EE",
   "U+10EF", "U+10F0", "U+10F1", "U+10F2", "U+10F3", "U+10F4", "U+10F5",
   "U+10F6", "U+10F7", "U+10F8", "U+10F9", "U+10FA", "U+10FD", "U+10FE",
   "U+10FF", "U+13A0", "U+13A1", "U+13A2", "U+13A3", "U+13A4", "U+13A5",
   "U+13A6", "U+13A7", "U+13A8", "U+13A9", "U+13AA", "U+13AB", "U+13AC",
   "U+13AD", "U+13AE", "U+13AF", "U+13B0", "U+13B1", "U+13B2", "U+13B3",
   "U+13B4", "U+13B5", "U+13B6", "U+13B7", "U+13B8", "U+13B9", "U+13BA",
   "U+13BB", "U+13BC", "U+13BD", "U+13BE", "U+13BF", "U+13C0", "U+13C1",
   "U+13C2", "U+13C3", "U+13C4", "U+13C5", "U+13C6", "U+13C7", "U+13C8",
   "U+13C9", "U+13CA", "U+13CB", "U+13CC", "U+13CD", "U+13CE", "U+13CF",
   "U+13D0", "U+13D1", "U+13D2", "U+13D3", "U+13D4", "U+13D5", "U+13D6",
   "U+13D7", "U+13D8", "U+13D9", "U+13DA", "U+13DB", "U+13DC", "U+13DD",
   "U+13DE", "U+13DF", "U+13E0", "U+13E1", "U+13E2", "U+13E3", "U+13E4",
   "U+13E5", "U+13E6", "U+13E7", "U+13E8", "U+13E9", "U+13EA", "U+13EB",
   "U+13EC", "U+13ED", "U+13EE", "U+13EF", "U+13F0", "U+13F1", "U+13F2",
   "U+13F3", "U+13F4", "U+13F5", "U+13F8", "U+13F9", "U+13FA", "U+13FB",
   "U+13FC", "U+13FD", "U+1C80", "U+1C81", "U+1C82", "U+1C83", "U+1C84",
   "U+1C85", "U+1C86", "U+1C87", "U+1C88", "U+1C89", "U+1C8A", "U+1C90",
   "U+1C91", "U+1C92", "U+1C93", "U+1C94", "U+1C95", "U+1C96", "U+1C97",
   "U+1C98", "U+1C99", "U+1C9A", "U+1C9B", "U+1C9C", "U+1C9D", "U+1C9E",
   "U+1C9F", "U+1CA0", "U+1CA1", "U+1CA2", "U+1CA3", "U+1CA4", "U+1CA5",
   "U+1CA6", "U+1CA7", "U+1CA8", "U+1CA9", "U+1CAA", "U+1CAB", "U+1CAC",
   "U+1CAD", "U+1CAE", "U+1CAF", "U+1CB0", "U+1CB1", "U+1CB2", "U+1CB3",
   "U+1CB4", "U+1CB5", "U+1CB6", "U+1CB7", "U+1CB8", "U+1CB9", "U+1CBA",
   "U+1CBD", "U+1CBE", "U+1CBF", "U+1D00", "U+1D01", "U+1D02", "U+1D03",
   "U+1D04", "U+1D05", "U+1D06", "U+1D07", "U+1D08", "U+1D09", "U+1D0A",
   "U+1D0B", "U+1D0C", "U+1D0D", "U+1D0E", "U+1D0F", "U+1D10", "U+1D11",
   "U+1D12", "U+1D13", "U+1D14", "U+1D15", "U+1D16", "U+1D17", "U+1D18",
   "U+1D19", "U+1D1A", "U+1D1B", "U+1D1C", "U+1D1D", "U+1D1E", "U+1D1F",
   "U+1D20", "U+1D21", "U+1D22", "U+1D23", "U+1D24", "U+1D25", "U+1D26",
   "U+1D27", "U+1D28", "U+1D29", "U+1D2A", "U+1D2B", "U+1D6B", "U+1D6C",
   "U+1D6D", "U+1D6E", "U+1D6F", "U+1D70", "U+1D71", "U+1D72", "U+1D73",
   "U+1D74", "U+1D75", "U+1D76", "U+1D77", "U+1D79", "U+1D7A", "U+1D7B",
   "U+1D7C", "U+1D7D", "U+1D7E", "U+1D7F", "U+1D80", "U+1D81", "U+1D82",
   "U+1D83", "U+1D84", "U+1D85", "U+1D86", "U+1D87", "U+1D88", "U+1D89",
   "U+1D8A", "U+1D8B", "U+1D8C", "U+1D8D", "U+1D8E", "U+1D8F", "U+1D90",
   "U+1D91", "U+1D92", "U+1D93", "U+1D94", "U+1D95", "U+1D96", "U+1D97",
   "U+1D98", "U+1D99", "U+1D9A", "U+1E00", "U+1E01", "U+1E02", "U+1E03",
   "U+1E04", "U+1E05", "U+1E06", "U+1E07", "U+1E08", "U+1E09", "U+1E0A",
   "U+1E0B", "U+1E0C", "U+1E0D", "U+1E0E", "U+1E0F", "U+1E10", "U+1E11",
   "U+1E12", "U+1E13", "U+1E14", "U+1E15", "U+1E16", "U+1E17", "U+1E18",
   "U+1E19", "U+1E1A", "U+1E1B", "U+1E1C", "U+1E1D", "U+1E1E", "U+1E1F",
   "U+1E20", "U+1E21", "U+1E22", "U+1E23", "U+1E24", "U+1E25", "U+1E26",
   "U+1E27", "U+1E28", "U+1E29", "U+1E2A", "U+1E2B", "U+1E2C", "U+1E2D",
   "U+1E2E", "U+1E2F", "U+1E30", "U+1E31", "U+1E32", "U+1E33", "U+1E34",
   "U+1E35", "U+1E36", "U+1E37", "U+1E38", "U+1E39", "U+1E3A", "U+1E3B",
   "U+1E3C", "U+1E3D", "U+1E3E", "U+1E3F", "U+1E40", "U+1E41", "U+1E42",
   "U+1E43", "U+1E44", "U+1E45", "U+1E46", "U+1E47", "U+1E48", "U+1E49",
   "U+1E4A", "U+1E4B", "U+1E4C", "U+1E4D", "U+1E4E", "U+1E4F", "U+1E50",
   "U+1E51", "U+1E52", "U+1E53", "U+1E54", "U+1E55", "U+1E56", "U+1E57",
   "U+1E58", "U+1E59", "U+1E5A", "U+1E5B", "U+1E5C", "U+1E5D", "U+1E5E",
   "U+1E5F", "U+1E60", "U+1E61", "U+1E62", "U+1E63", "U+1E64", "U+1E65",
   "U+1E66", "U+1E67", "U+1E68", "U+1E69", "U+1E6A", "U+1E6B", "U+1E6C",
   "U+1E6D", "U+1E6E", "U+1E6F", "U+1E70", "U+1E71", "U+1E72", "U+1E73",
   "U+1E74", "U+1E75", "U+1E76", "U+1E77", "U+1E78", "U+1E79", "U+1E7A",
   "U+1E7B", "U+1E7C", "U+1E7D", "U+1E7E", "U+1E7F", "U+1E80", "U+1E81",
   "U+1E82", "U+1E83", "U+1E84", "U+1E85", "U+1E86", "U+1E87", "U+1E88",
   "U+1E89", "U+1E8A", "U+1E8B", "U+1E8C", "U+1E8D", "U+1E8E", "U+1E8F",
   "U+1E90", "U+1E91", "U+1E92", "U+1E93", "U+1E94", "U+1E95", "U+1E96",
   "U+1E97", "U+1E98", "U+1E99", "U+1E9A", "U+1E9B", "U+1E9C", "U+1E9D",
   "U+1E9E", "U+1E9F", "U+1EA0", "U+1EA1", "U+1EA2", "U+1EA3", "U+1EA4",
   "U+1EA5", "U+1EA6", "U+1EA7", "U+1EA8", "U+1EA9", "U+1EAA", "U+1EAB",
   "U+1EAC", "U+1EAD", "U+1EAE", "U+1EAF", "U+1EB0", "U+1EB1", "U+1EB2",
   "U+1EB3", "U+1EB4", "U+1EB5", "U+1EB6", "U+1EB7", "U+1EB8", "U+1EB9",
   "U+1EBA", "U+1EBB", "U+1EBC", "U+1EBD", "U+1EBE", "U+1EBF", "U+1EC0",
   "U+1EC1", "U+1EC2", "U+1EC3", "U+1EC4", "U+1EC5", "U+1EC6", "U+1EC7",
   "U+1EC8", "U+1EC9", "U+1ECA", "U+1ECB", "U+1ECC", "U+1ECD", "U+1ECE",
   "U+1ECF", "U+1ED0", "U+1ED1", "U+1ED2", "U+1ED3", "U+1ED4", "U+1ED5",
   "U+1ED6", "U+1ED7", "U+1ED8", "U+1ED9", "U+1EDA", "U+1EDB", "U+1EDC",
   "U+1EDD", "U+1EDE", "U+1EDF", "U+1EE0", "U+1EE1", "U+1EE2", "U+1EE3",
   "U+1EE4", "U+1EE5", "U+1EE6", "U+1EE7", "U+1EE8", "U+1EE9", "U+1EEA",
   "U+1EEB", "U+1EEC", "U+1EED", "U+1EEE", "U+1EEF", "U+1EF0", "U+1EF1",
   "U+1EF2", "U+1EF3", "U+1EF4", "U+1EF5", "U+1EF6", "U+1EF7", "U+1EF8",
   "U+1EF9", "U+1EFA", "U+1EFB", "U+1EFC", "U+1EFD", "U+1EFE", "U+1EFF",
   "U+1F00", "U+1F01", "U+1F02", "U+1F03", "U+1F04", "U+1F05", "U+1F06",
   "U+1F07", "U+1F08", "U+1F09", "U+1F0A", "U+1F0B", "U+1F0C", "U+1F0D",
   "U+1F0E", "U+1F0F", "U+1F10", "U+1F11", "U+1F12", "U+1F13", "U+1F14",
   "U+1F15", "U+1F18", "U+1F19", "U+1F1A", "U+1F1B", "U+1F1C", "U+1F1D",
   "U+1F20", "U+1F21", "U+1F22", "U+1F23", "U+1F24", "U+1F25", "U+1F26",
   "U+1F27", "U+1F28", "U+1F29", "U+1F2A", "U+1F2B", "U+1F2C", "U+1F2D",
   "U+1F2E", "U+1F2F", "U+1F30", "U+1F31", "U+1F32", "U+1F33", "U+1F34",
   "U+1F35", "U+1F36", "U+1F37", "U+1F38", "U+1F39", "U+1F3A", "U+1F3B",
   "U+1F3C", "U+1F3D", "U+1F3E", "U+1F3F", "U+1F40", "U+1F41", "U+1F42",
   "U+1F43", "U+1F44", "U+1F45", "U+1F48", "U+1F49", "U+1F4A", "U+1F4B",
   "U+1F4C", "U+1F4D", "U+1F50", "U+1F51", "U+1F52", "U+1F53", "U+1F54",
   "U+1F55", "U+1F56", "U+1F57", "U+1F59", "U+1F5B", "U+1F5D", "U+1F5F",
   "U+1F60", "U+1F61", "U+1F62", "U+1F63", "U+1F64", "U+1F65", "U+1F66",
   "U+1F67", "U+1F68", "U+1F69", "U+1F6A", "U+1F6B", "U+1F6C", "U+1F6D",
   "U+1F6E", "U+1F6F", "U+1F70", "U+1F71", "U+1F72", "U+1F73", "U+1F74",
   "U+1F75", "U+1F76", "U+1F77", "U+1F78", "U+1F79", "U+1F7A", "U+1F7B",
   "U+1F7C", "U+1F7D", "U+1F80", "U+1F81", "U+1F82", "U+1F83", "U+1F84",
   "U+1F85", "U+1F86", "U+1F87", "U+1F88", "U+1F89", "U+1F8A", "U+1F8B",
   "U+1F8C", "U+1F8D", "U+1F8E", "U+1F8F", "U+1F90", "U+1F91", "U+1F92",
   "U+1F93", "U+1F94", "U+1F95", "U+1F96", "U+1F97", "U+1F98", "U+1F99",
   "U+1F9A", "U+1F9B", "U+1F9C", "U+1F9D", "U+1F9E", "U+1F9F", "U+1FA0",
   "U+1FA1", "U+1FA2", "U+1FA3", "U+1FA4", "U+1FA5", "U+1FA6", "U+1FA7",
   "U+1FA8", "U+1FA9", "U+1FAA", "U+1FAB", "U+1FAC", "U+1FAD", "U+1FAE",
   "U+1FAF", "U+1FB0", "U+1FB1", "U+1FB2", "U+1FB3", "U+1FB4", "U+1FB6",
   "U+1FB7", "U+1FB8", "U+1FB9", "U+1FBA", "U+1FBB", "U+1FBC", "U+1FBE",
   "U+1FC2", "U+1FC3", "U+1FC4", "U+1FC6", "U+1FC7", "U+1FC8", "U+1FC9",
   "U+1FCA", "U+1FCB", "U+1FCC", "U+1FD0", "U+1FD1", "U+1FD2", "U+1FD3",
   "U+1FD6", "U+1FD7", "U+1FD8", "U+1FD9", "U+1FDA", "U+1FDB", "U+1FE0",
   "U+1FE1", "U+1FE2", "U+1FE3", "U+1FE4", "U+1FE5", "U+1FE6", "U+1FE7",
   "U+1FE8", "U+1FE9", "U+1FEA", "U+1FEB", "U+1FEC", "U+1FF2", "U+1FF3",
   "U+1FF4", "U+1FF6", "U+1FF7", "U+1FF8", "U+1FF9", "U+1FFA", "U+1FFB",
   "U+1FFC", "U+2102", "U+2107", "U+210A", "U+210B", "U+210C", "U+210D",
   "U+210E", "U+210F", "U+2110", "U+2111", "U+2112", "U+2113", "U+2115",
   "U+2119", "U+211A", "U+211B", "U+211C", "U+211D", "U+2124", "U+2126",
   "U+2128", "U+212A", "U+212B", "U+212C", "U+212D", "U+212F", "U+2130",
   "U+2131", "U+2132", "U+2133", "U+2134", "U+2139", "U+213C", "U+213D",
   "U+213E", "U+213F", "U+2145", "U+2146", "U+2147", "U+2148", "U+2149",
   "U+214E", "U+2160", "U+2161", "U+2162", "U+2163", "U+2164", "U+2165",
   "U+2166", "U+2167", "U+2168", "U+2169", "U+216A", "U+216B", "U+216C",
   "U+216D", "U+216E", "U+216F", "U+2170", "U+2171", "U+2172", "U+2173",
   "U+2174", "U+2175", "U+2176", "U+2177", "U+2178", "U+2179", "U+217A",
   "U+217B", "U+217C", "U+217D", "U+217E", "U+217F", "U+2183", "U+2184",
   "U+24B6", "U+24B7", "U+24B8", "U+24B9", "U+24BA", "U+24BB", "U+24BC",
   "U+24BD", "U+24BE", "U+24BF", "U+24C0", "U+24C1", "U+24C2", "U+24C3",
   "U+24C4", "U+24C5", "U+24C6", "U+24C7", "U+24C8", "U+24C9", "U+24CA",
   "U+24CB", "U+24CC", "U+24CD", "U+24CE", "U+24CF", "U+24D0", "U+24D1",
   "U+24D2", "U+24D3", "U+24D4", "U+24D5", "U+24D6", "U+24D7", "U+24D8",
   "U+24D9", "U+24DA", "U+24DB", "U+24DC", "U+24DD", "U+24DE", "U+24DF",
   "U+24E0", "U+24E1", "U+24E2", "U+24E3", "U+24E4", "U+24E5", "U+24E6",
   "U+24E7", "U+24E8", "U+24E9", "U+2C00", "U+2C01", "U+2C02", "U+2C03",
   "U+2C04", "U+2C05", "U+2C06", "U+2C07", "U+2C08", "U+2C09", "U+2C0A",
   "U+2C0B", "U+2C0C", "U+2C0D", "U+2C0E", "U+2C0F", "U+2C10", "U+2C11",
   "U+2C12", "U+2C13", "U+2C14", "U+2C15", "U+2C16", "U+2C17", "U+2C18",
   "U+2C19", "U+2C1A", "U+2C1B", "U+2C1C", "U+2C1D", "U+2C1E", "U+2C1F",
   "U+2C20", "U+2C21", "U+2C22", "U+2C23", "U+2C24", "U+2C25", "U+2C26",
   "U+2C27", "U+2C28", "U+2C29", "U+2C2A", "U+2C2B", "U+2C2C", "U+2C2D",
   "U+2C2E", "U+2C2F", "U+2C30", "U+2C31", "U+2C32", "U+2C33", "U+2C34",
   "U+2C35", "U+2C36", "U+2C37", "U+2C38", "U+2C39", "U+2C3A", "U+2C3B",
   "U+2C3C", "U+2C3D", "U+2C3E", "U+2C3F", "U+2C40", "U+2C41", "U+2C42",
   "U+2C43", "U+2C44", "U+2C45", "U+2C46", "U+2C47", "U+2C48", "U+2C49",
   "U+2C4A", "U+2C4B", "U+2C4C", "U+2C4D", "U+2C4E", "U+2C4F", "U+2C50",
   "U+2C51", "U+2C52", "U+2C53", "U+2C54", "U+2C55", "U+2C56", "U+2C57",
   "U+2C58", "U+2C59", "U+2C5A", "U+2C5B", "U+2C5C", "U+2C5D", "U+2C5E",
   "U+2C5F", "U+2C60", "U+2C61", "U+2C62", "U+2C63", "U+2C64", "U+2C65",
   "U+2C66", "U+2C67", "U+2C68", "U+2C69", "U+2C6A", "U+2C6B", "U+2C6C",
   "U+2C6D", "U+2C6E", "U+2C6F", "U+2C70", "U+2C71", "U+2C72", "U+2C73",
   "U+2C74", "U+2C75", "U+2C76", "U+2C77", "U+2C78", "U+2C79", "U+2C7A",
   "U+2C7B", "U+2C7E", "U+2C7F", "U+2C80", "U+2C81", "U+2C82", "U+2C83",
   "U+2C84", "U+2C85", "U+2C86", "U+2C87", "U+2C88", "U+2C89", "U+2C8A",
   "U+2C8B", "U+2C8C", "U+2C8D", "U+2C8E", "U+2C8F", "U+2C90", "U+2C91",
   "U+2C92", "U+2C93", "U+2C94", "U+2C95", "U+2C96", "U+2C97", "U+2C98",
   "U+2C99", "U+2C9A", "U+2C9B", "U+2C9C", "U+2C9D", "U+2C9E", "U+2C9F",
   "U+2CA0", "U+2CA1", "U+2CA2", "U+2CA3", "U+2CA4", "U+2CA5", "U+2CA6",
   "U+2CA7", "U+2CA8", "U+2CA9", "U+2CAA", "U+2CAB", "U+2CAC", "U+2CAD",
   "U+2CAE", "U+2CAF", "U+2CB0", "U+2CB1", "U+2CB2", "U+2CB3", "U+2CB4",
   "U+2CB5", "U+2CB6", "U+2CB7", "U+2CB8", "U+2CB9", "U+2CBA", "U+2CBB",
   "U+2CBC", "U+2CBD", "U+2CBE", "U+2CBF", "U+2CC0", "U+2CC1", "U+2CC2",
   "U+2CC3", "U+2CC4", "U+2CC5", "U+2CC6", "U+2CC7", "U+2CC8", "U+2CC9",
   "U+2CCA", "U+2CCB", "U+2CCC", "U+2CCD", "U+2CCE", "U+2CCF", "U+2CD0",
   "U+2CD1", "U+2CD2", "U+2CD3", "U+2CD4", "U+2CD5", "U+2CD6", "U+2CD7",
   "U+2CD8", "U+2CD9", "U+2CDA", "U+2CDB", "U+2CDC", "U+2CDD", "U+2CDE",
   "U+2CDF", "U+2CE0", "U+2CE1", "U+2CE2", "U+2CE3", "U+2CE4", "U+2CEB",
   "U+2CEC", "U+2CED", "U+2CEE", "U+2CF2", "U+2CF3", "U+2D00", "U+2D01",
   "U+2D02", "U+2D03", "U+2D04", "U+2D05", "U+2D06", "U+2D07", "U+2D08",
   "U+2D09", "U+2D0A", "U+2D0B", "U+2D0C", "U+2D0D", "U+2D0E", "U+2D0F",
   "U+2D10", "U+2D11", "U+2D12", "U+2D13", "U+2D14", "U+2D15", "U+2D16",
   "U+2D17", "U+2D18", "U+2D19", "U+2D1A", "U+2D1B", "U+2D1C", "U+2D1D",
   "U+2D1E", "U+2D1F", "U+2D20", "U+2D21", "U+2D22", "U+2D23", "U+2D24",
   "U+2D25", "U+2D27", "U+2D2D", "U+A640", "U+A641", "U+A642", "U+A643",
   "U+A644", "U+A645", "U+A646", "U+A647", "U+A648", "U+A649", "U+A64A",
   "U+A64B", "U+A64C", "U+A64D", "U+A64E", "U+A64F", "U+A650", "U+A651",
   "U+A652", "U+A653", "U+A654", "U+A655", "U+A656", "U+A657", "U+A658",
   "U+A659", "U+A65A", "U+A65B", "U+A65C", "U+A65D", "U+A65E", "U+A65F",
   "U+A660", "U+A661", "U+A662", "U+A663", "U+A664", "U+A665", "U+A666",
   "U+A667", "U+A668", "U+A669", "U+A66A", "U+A66B", "U+A66C", "U+A66D",
   "U+A680", "U+A681", "U+A682", "U+A683", "U+A684", "U+A685", "U+A686",
   "U+A687", "U+A688", "U+A689", "U+A68A", "U+A68B", "U+A68C", "U+A68D",
   "U+A68E", "U+A68F", "U+A690", "U+A691", "U+A692", "U+A693", "U+A694",
   "U+A695", "U+A696", "U+A697", "U+A698", "U+A699", "U+A69A", "U+A69B",
   "U+A722", "U+A723", "U+A724", "U+A725", "U+A726", "U+A727", "U+A728",
   "U+A729", "U+A72A", "U+A72B", "U+A72C", "U+A72D", "U+A72E", "U+A72F",
   "U+A730", "U+A731", "U+A732", "U+A733", "U+A734", "U+A735", "U+A736",
   "U+A737", "U+A738", "U+A739", "U+A73A", "U+A73B", "U+A73C", "U+A73D",
   "U+A73E", "U+A73F", "U+A740", "U+A741", "U+A742", "U+A743", "U+A744",
   "U+A745", "U+A746", "U+A747", "U+A748", "U+A749", "U+A74A", "U+A74B",
   "U+A74C", "U+A74D", "U+A74E", "U+A74F", "U+A750", "U+A751", "U+A752",
   "U+A753", "U+A754", "U+A755", "U+A756", "U+A757", "U+A758", "U+A759",
   "U+A75A", "U+A75B", "U+A75C", "U+A75D", "U+A75E", "U+A75F", "U+A760",
   "U+A761", "U+A762", "U+A763", "U+A764", "U+A765", "U+A766", "U+A767",
   "U+A768", "U+A769", "U+A76A", "U+A76B", "U+A76C", "U+A76D", "U+A76E",
   "U+A76F", "U+A771", "U+A772", "U+A773", "U+A774", "U+A775", "U+A776",
   "U+A777", "U+A778", "U+A779", "U+A77A", "U+A77B", "U+A77C", "U+A77D",
   "U+A77E", "U+A77F", "U+A780", "U+A781", "U+A782", "U+A783", "U+A784",
   "U+A785", "U+A786", "U+A787", "U+A78B", "U+A78C", "U+A78D", "U+A78E",
   "U+A790", "U+A791", "U+A792", "U+A793", "U+A794", "U+A795", "U+A796",
   "U+A797", "U+A798", "U+A799", "U+A79A", "U+A79B", "U+A79C", "U+A79D",
   "U+A79E", "U+A79F", "U+A7A0", "U+A7A1", "U+A7A2", "U+A7A3", "U+A7A4",
   "U+A7A5", "U+A7A6", "U+A7A7", "U+A7A8", "U+A7A9", "U+A7AA", "U+A7AB",
   "U+A7AC", "U+A7AD", "U+A7AE", "U+A7AF", "U+A7B0", "U+A7B1", "U+A7B2",
   "U+A7B3", "U+A7B4", "U+A7B5", "U+A7B6", "U+A7B7", "U+A7B8", "U+A7B9",
   "U+A7BA", "U+A7BB", "U+A7BC", "U+A7BD", "U+A7BE", "U+A7BF", "U+A7C0",
   "U+A7C1", "U+A7C2", "U+A7C3", "U+A7C4", "U+A7C5", "U+A7C6", "U+A7C7",
   "U+A7C8", "U+A7C9", "U+A7CA", "U+A7CB", "U+A7CC", "U+A7CD", "U+A7CE",
   "U+A7CF", "U+A7D0", "U+A7D1", "U+A7D2", "U+A7D3", "U+A7D4", "U+A7D5",
   "U+A7D6", "U+A7D7", "U+A7D8", "U+A7D9", "U+A7DA", "U+A7DB", "U+A7DC",
   "U+A7F5", "U+A7F6", "U+A7FA", "U+AB30", "U+AB31", "U+AB32", "U+AB33",
   "U+AB34", "U+AB35", "U+AB36", "U+AB37", "U+AB38", "U+AB39", "U+AB3A",
   "U+AB3B", "U+AB3C", "U+AB3D", "U+AB3E", "U+AB3F", "U+AB40", "U+AB41",
   "U+AB42", "U+AB43", "U+AB44", "U+AB45", "U+AB46", "U+AB47", "U+AB48",
   "U+AB49", "U+AB4A", "U+AB4B", "U+AB4C", "U+AB4D", "U+AB4E", "U+AB4F",
   "U+AB50", "U+AB51", "U+AB52", "U+AB53", "U+AB54", "U+AB55", "U+AB56",
   "U+AB57", "U+AB58", "U+AB59", "U+AB5A", "U+AB60", "U+AB61", "U+AB62",
   "U+AB63", "U+AB64", "U+AB65", "U+AB66", "U+AB67", "U+AB68", "U+AB70",
   "U+AB71", "U+AB72", "U+AB73", "U+AB74", "U+AB75", "U+AB76", "U+AB77",
   "U+AB78", "U+AB79", "U+AB7A", "U+AB7B", "U+AB7C", "U+AB7D", "U+AB7E",
   "U+AB7F", "U+AB80", "U+AB81", "U+AB82", "U+AB83", "U+AB84", "U+AB85",
   "U+AB86", "U+AB87", "U+AB88", "U+AB89", "U+AB8A", "U+AB8B", "U+AB8C",
   "U+AB8D", "U+AB8E", "U+AB8F", "U+AB90", "U+AB91", "U+AB92", "U+AB93",
   "U+AB94", "U+AB95", "U+AB96", "U+AB97", "U+AB98", "U+AB99", "U+AB9A",
   "U+AB9B", "U+AB9C", "U+AB9D", "U+AB9E", "U+AB9F", "U+ABA0", "U+ABA1",
   "U+ABA2", "U+ABA3", "U+ABA4", "U+ABA5", "U+ABA6", "U+ABA7", "U+ABA8",
   "U+ABA9", "U+ABAA", "U+ABAB", "U+ABAC", "U+ABAD", "U+ABAE", "U+ABAF",
   "U+ABB0", "U+ABB1", "U+ABB2", "U+ABB3", "U+ABB4", "U+ABB5", "U+ABB6",
   "U+ABB7", "U+ABB8", "U+ABB9", "U+ABBA", "U+ABBB", "U+ABBC", "U+ABBD",
   "U+ABBE", "U+ABBF", "U+FB00", "U+FB01", "U+FB02", "U+FB03", "U+FB04",
   "U+FB05", "U+FB06", "U+FB13", "U+FB14", "U+FB15", "U+FB16", "U+FB17",
   "U+FF21", "U+FF22", "U+FF23", "U+FF24", "U+FF25", "U+FF26", "U+FF27",
   "U+FF28", "U+FF29", "U+FF2A", "U+FF2B", "U+FF2C", "U+FF2D", "U+FF2E",
   "U+FF2F", "U+FF30", "U+FF31", "U+FF32", "U+FF33", "U+FF34", "U+FF35",
   "U+FF36", "U+FF37", "U+FF38", "U+FF39", "U+FF3A", "U+FF41", "U+FF42",
   "U+FF43", "U+FF44", "U+FF45", "U+FF46", "U+FF47", "U+FF48", "U+FF49",
   "U+FF4A", "U+FF4B", "U+FF4C", "U+FF4D", "U+FF4E", "U+FF4F", "U+FF50",
   "U+FF51", "U+FF52", "U+FF53", "U+FF54", "U+FF55", "U+FF56", "U+FF57",
   "U+FF58", "U+FF59", "U+FF5A"}

\* Case_Ignorable characters above U+FFFF.
CaseIgnorablePairs ==
  ({"U+D800"} \X
     {"U+DDFD", "U+DEE0", "U+DF76", "U+DF77", "U+DF78", "U+DF79", "U+DF7A"})
    \cup
  ({"U+D801"} \X
     {"U+DF80", "U+DF81", "U+DF82", "U+DF83", "U+DF84", "U+DF85", "U+DF87",
      "U+DF88", "U+DF89", "U+DF8A", "U+DF8B", "U+DF8C", "U+DF8D", "U+DF8E",
      "U+DF8F", "U+DF90", "U+DF91", "U+DF92", "U+DF93", "U+DF94", "U+DF95",
      "U+DF96", "U+DF97", "U+DF98", "U+DF99", "U+DF9A", "U+DF9B", "U+DF9C",
      "U+DF9D", "U+DF9E", "U+DF9F", "U+DFA0", "U+DFA1", "U+DFA2", "U+DFA3",
      "U+DFA4", "U+DFA5", "U+DFA6", "U+DFA7", "U+DFA8", "U+DFA9", "U+DFAA",
      "U+DFAB", "U+DFAC", "U+DFAD", "U+DFAE", "U+DFAF", "U+DFB0", "U+DFB2",
      "U+DFB3", "U+DFB4", "U+DFB5", "U+DFB6", "U+DFB7", "U+DFB8", "U+DFB9",
      "U+DFBA"})
    \cup
  ({"U+D802"} \X
     {"U+DE01", "U+DE02", "U+DE03", "U+DE05", "U+DE06", "U+DE0C", "U+DE0D",
      "U+DE0E", "U+DE0F", "U+DE38", "U+DE39", "U+DE3A", "U+DE3F", "U+DEE5",
      "U+DEE6"})
    \cup
  ({"U+D803"} \X
     {"U+DD24", "U+DD25", "U+DD26", "U+DD27", "U+DD4E", "U+DD69", "U+DD6A",
      "U+DD6B", "U+DD6C", "U+DD6D", "U+DD6F", "U+DEAB", "U+DEAC", "U+DEC5",
      "U+DEFA", "U+DEFB", "U+DEFC", "U+DEFD", "U+DEFE", "U+DEFF", "U+DF46",
      "U+DF47", "U+DF48", "U+DF49", "U+DF4A", "U+DF4B", "U+DF4C", "U+DF4D",
      "U+DF4E", "U+DF4F", "U+DF50", "U+DF82", "U+DF83", "U+DF84", "U+DF85"})
    \cup
  ({"U+D804"} \X
     {"U+DC01", "U+DC38", "U+DC39", "U+DC3A", "U+DC3B", "U+DC3C", "U+DC3D",
      "U+DC3E", "U+DC3F", "U+DC40", "U+DC41", "U+DC42", "U+DC43", "U+DC44",
      "U+DC45", "U+DC46", "U+DC70", "U+DC73", "U+DC74", "U+DC7F", "U+DC80",
      "U+DC81", "U+DCB3", "U+DCB4", "U+DCB5", "U+DCB6", "U+DCB9", "U+DCBA",
      "U+DCBD", "U+DCC2", "U+DCCD", "U+DD00", "U+DD01", "U+DD02", "U+DD27",
      "U+DD28", "U+DD29", "U+DD2A", "U+DD2B", "U+DD2D", "U+DD2E", "U+DD2F",
      "U+DD30", "U+DD31", "U+DD32", "U+DD33", "U+DD34", "U+DD73", "U+DD80",
      "U+DD81", "U+DDB6", "U+DDB7", "U+DDB8", "U+DDB9", "U+DDBA", "U+DDBB",
      "U+DDBC", "U+DDBD", "U+DDBE", "U+DDC9", "U+DDCA", "U+DDCB", "U+DDCC",
      "U+DDCF", "U+DE2F", "U+DE30", "U+DE31", "U+DE34", "U+DE36", "U+DE37",
      "U+DE3E", "U+DE41", "U+DEDF", "U+DEE3", "U+DEE4", "U+DEE5", "U+DEE6",
      "U+DEE7", "U+DEE8", "U+DEE9", "U+DEEA", "U+DF00", "U+DF01", "U+DF3B",
      "U+DF3C", "U+DF40", "U+DF66", "U+DF67", "U+DF68", "U+DF69", "U+DF6A",
      "U+DF6B", "U+DF6C", "U+DF70", "U+DF71", "U+DF72", "U+DF73", "U+DF74",
      "U+DFBB", "U+DFBC", "U+DFBD", "U+DFBE", "U+DFBF", "U+DFC0", "U+DFCE",
      "U+DFD0", "U+DFD2", "U+DFE1", "U+DFE2"})
    \cup
  ({"U+D805"} \X
     {"U+DC38", "U+DC39", "U+DC3A", "U+DC3B", "U+DC3C", "U+DC3D", "U+DC3E",
      "U+DC3F", "U+DC42", "U+DC43", "U+DC44", "U+DC46", "U+DC5E", "U+DCB3",
      "U+DCB4", "U+DCB5", "U+DCB6", "U+DCB7", "U+DCB8", "U+DCBA", "U+DCBF",
      "U+DCC0", "U+DCC2", "U+DCC3", "U+DDB2", "U+DDB3", "U+DDB4", "U+DDB5",
      "U+DDBC", "U+DDBD", "U+DDBF", "U+DDC0", "U+DDDC", "U+DDDD", "U+DE33",
      "U+DE34", "U+DE35", "U+DE36", "U+DE37", "U+DE38", "U+DE39", "U+DE3A",
      "U+DE3D", "U+DE3F", "U+DE40", "U+DEAB", "U+DEAD", "U+DEB0", "U+DEB1",
      "U+DEB2", "U+DEB3", "U+DEB4", "U+DEB5", "U+DEB7", "U+DF1D", "U+DF1F",
      "U+DF22", "U+DF23", "U+DF24", "U+DF25", "U+DF27", "U+DF28", "U+DF29",
      "U+DF2A", "U+DF2B"})
    \cup
  ({"U+D806"} \X
     {"U+DC2F", "U+DC30", "U+DC31", "U+DC32", "U+DC33", "U+DC34", "U+DC35",
      "U+DC36", "U+DC37", "U+DC39", "U+DC3A", "U+DD3B", "U+DD3C", "U+DD3E",
      "U+DD43", "U+DDD4", "U+DDD5", "U+DDD6", "U+DDD7", "U+DDDA", "U+DDDB",
      "U+DDE0", "U+DE01", "U+DE02", "U+DE03", "U+DE04", "U+DE05", "U+DE06",
      "U+DE07", "U+DE08", "U+DE09", "U+DE0A", "U+DE33", "U+DE34", "U+DE35",
      "U+DE36", "U+DE37", "U+DE38", "U+DE3B", "U+DE3C", "U+DE3D", "U+DE3E",
      "U+DE47", "U+DE51", "U+DE52", "U+DE53", "U+DE54", "U+DE55", "U+DE56",
      "U+DE59", "U+DE5A", "U+DE5B", "U+DE8A", "U+DE8B", "U+DE8C", "U+DE8D",
      "U+DE8E", "U+DE8F", "U+DE90", "U+DE91", "U+DE92", "U+DE93", "U+DE94",
      "U+DE95", "U+DE96", "U+DE98", "U+DE99", "U+DF60", "U+DF62", "U+DF63",
      "U+DF64", "U+DF66"})
    \cup
  ({"U+D807"} \X
     {"U+DC30", "U+DC31", "U+DC32", "U+DC33", "U+DC34", "U+DC35", "U+DC36",
      "U+DC38", "U+DC39", "U+DC3A", "U+DC3B", "U+DC3C", "U+DC3D", "U+DC3F",
      "U+DC92", "U+DC93", "U+DC94", "U+DC95", "U+DC96", "U+DC97", "U+DC98",
      "U+DC99", "U+DC9A", "U+DC9B", "U+DC9C", "U+DC9D", "U+DC9E", "U+DC9F",
      "U+DCA0", "U+DCA1", "U+DCA2", "U+DCA3", "U+DCA4", "U+DCA5", "U+DCA6",
      "U+DCA7", "U+DCAA", "U+DCAB", "U+DCAC", "U+DCAD", "U+DCAE", "U+DCAF",
      "U+DCB0", "U+DCB2", "U+DCB3", "U+DCB5", "U+DCB6", "U+DD31", "U+DD32",
      "U+DD33", "U+DD34", "U+DD35", "U+DD36", "U+DD3A", "U+DD3C", "U+DD3D",
      "U+DD3F", "U+DD40", "U+DD41", "U+DD42", "U+DD43", "U+DD44", "U+DD45",
      "U+DD47", "U+DD90", "U+DD91", "U+DD95", "U+DD97", "U+DDD9", "U+DEF3",
      "U+DEF4", "U+DF00", "U+DF01", "U+DF36", "U+DF37", "U+DF38", "U+DF39",
      "U+DF3A", "U+DF40", "U+DF42", "U+DF5A"})
    \cup
  ({"U+D80D"} \X
     {"U+DC30", "U+DC31", "U+DC32", "U+DC33", "U+DC34", "U+DC35", "U+DC36",
      "U+DC37", "U+DC38", "U+DC39", "U+DC3A", "U+DC3B", "U+DC3C", "U+DC3D",
      "U+DC3E", "U+DC3F", "U+DC40", "U+DC47", "U+DC48", "U+DC49", "U+DC4A",
      "U+DC4B", "U+DC4C", "U+DC4D", "U+DC4E", "U+DC4F", "U+DC50", "U+DC51",
      "U+DC52", "U+DC53", "U+DC54", "U+DC55"})
    \cup
  ({"U+D818"} \X
     {"U+DD1E", "U+DD1F", "U+DD20", "U+DD21", "U+DD22", "U+DD23", "U+DD24",
      "U+DD25", "U+DD26", "U+DD27", "U+DD28", "U+DD29", "U+DD2D", "U+DD2E",
      "U+DD2F"})
    \cup
  ({"U+D81A"} \X
     {"U+DEF0", "U+DEF1", "U+DEF2", "U+DEF3", "U+DEF4", "U+DF30", "U+DF31",
      "U+DF32", "U+DF33", "U+DF34", "U+DF35", "U+DF36", "U+DF40", "U+DF41",
      "U+DF42", "U+DF43"})
    \cup
  ({"U+D81B"} \X
     {"U+DD40", "U+DD41", "U+DD42", "U+DD6B", "U+DD6C", "U+DF4F", "U+DF8F",
      "U+DF90", "U+DF91", "U+DF92", "U+DF93", "U+DF94", "U+DF95", "U+DF96",
      "U+DF97", "U+DF98", "U+DF99", "U+DF9A", "U+DF9B", "U+DF9C", "U+DF9D",
      "U+DF9E", "U+DF9F", "U+DFE0", "U+DFE1", "U+DFE3", "U+DFE4", "U+DFF2",
      "U+DFF3"})
    \cup
  ({"U+D82B"} \X
     {"U+DFF0", "U+DFF1", "U+DFF2", "U+DFF3", "U+DFF5", "U+DFF6", "U+DFF7",
      "U+DFF8", "U+DFF9", "U+DFFA", "U+DFFB", "U+DFFD", "U+DFFE"})
    \cup
  ({"U+D82F"} \X
     {"U+DC9D", "U+DC9E", "U+DCA0", "U+DCA1", "U+DCA2", "U+DCA3"})
    \cup
  ({"U+D833"} \X
     {"U+DF00", "U+DF01", "U+DF02", "U+DF03", "U+DF04", "U+DF05", "U+DF06",
      "U+DF07", "U+DF08", "U+DF09", "U+DF0A", "U+DF0B", "U+DF0C", "U+DF0D",
      "U+DF0E", "U+DF0F", "U+DF10", "U+DF11", "U+DF12", "U+DF13", "U+DF14",
      "U+DF15", "U+DF16", "U+DF17", "U+DF18", "U+DF19", "U+DF1A", "U+DF1B",
      "U+DF1C", "U+DF1D", "U+DF1E", "U+DF1F", "U+DF20", "U+DF21", "U+DF22",
      "U+DF23", "U+DF24", "U+DF25", "U+DF26", "U+DF27", "U+DF28", "U+DF29",
      "U+DF2A", "U+DF2B", "U+DF2C", "U+DF2D", "U+DF30", "U+DF31", "U+DF32",
      "U+DF33", "U+DF34", "U+DF35", "U+DF36", "U+DF37", "U+DF38", "U+DF39",
      "U+DF3A", "U+DF3B", "U+DF3C", "U+DF3D", "U+DF3E", "U+DF3F", "U+DF40",
      "U+DF41", "U+DF42", "U+DF43", "U+DF44", "U+DF45", "U+DF46"})
    \cup
  ({"U+D834"} \X
     {"U+DD67", "U+DD68", "U+DD69", "U+DD73", "U+DD74", "U+DD75", "U+DD76",
      "U+DD77", "U+DD78", "U+DD79", "U+DD7A", "U+DD7B", "U+DD7C", "U+DD7D",
      "U+DD7E", "U+DD7F", "U+DD80", "U+DD81", "U+DD82", "U+DD85", "U+DD86",
      "U+DD87", "U+DD88", "U+DD89", "U+DD8A", "U+DD8B", "U+DDAA", "U+DDAB",
      "U+DDAC", "U+DDAD", "U+DE42", "U+DE43", "U+DE44"})
    \cup
  ({"U+D836"} \X
     {"U+DE00", "U+DE01", "U+DE02", "U+DE03", "U+DE04", "U+DE05", "U+DE06",
      "U+DE07", "U+DE08", "U+DE09", "U+DE0A", "U+DE0B", "U+DE0C", "U+DE0D",
      "U+DE0E", "U+DE0F", "U+DE10", "U+DE11", "U+DE12", "U+DE13", "U+DE14",
      "U+DE15", "U+DE16", "U+DE17", "U+DE18", "U+DE19", "U+DE1A", "U+DE1B",
      "U+DE1C", "U+DE1D", "U+DE1E", "U+DE1F", "U+DE20", "U+DE21", "U+DE22",
      "U+DE23", "U+DE24", "U+DE25", "U+DE26", "U+DE27", "U+DE28", "U+DE29",
      "U+DE2A", "U+DE2B", "U+DE2C", "U+DE2D", "U+DE2E", "U+DE2F", "U+DE30",
      "U+DE31", "U+DE32", "U+DE33", "U+DE34", "U+DE35", "U+DE36", "U+DE3B",
      "U+DE3C", "U+DE3D", "U+DE3E", "U+DE3F", "U+DE40", "U+DE41", "U+DE42",
      "U+DE43", "U+DE44", "U+DE45", "U+DE46", "U+DE47", "U+DE48", "U+DE49",
      "U+DE4A", "U+DE4B", "U+DE4C", "U+DE4D", "U+DE4E", "U+DE4F", "U+DE50",
      "U+DE51", "U+DE52", "U+DE53", "U+DE54", "U+DE55", "U+DE56", "U+DE57",
      "U+DE58", "U+DE59", "U+DE5A", "U+DE5B", "U+DE5C", "U+DE5D", "U+DE5E",
      "U+DE5F", "U+DE60", "U+DE61", "U+DE62", "U+DE63", "U+DE64", "U+DE65",
      "U+DE66", "U+DE67", "U+DE68", "U+DE69", "U+DE6A", "U+DE6B", "U+DE6C",
      "U+DE75", "U+DE84", "U+DE9B", "U+DE9C", "U+DE9D", "U+DE9E", "U+DE9F",
      "U+DEA1", "U+DEA2", "U+DEA3", "U+DEA4", "U+DEA5", "U+DEA6", "U+DEA7",
      "U+DEA8", "U+DEA9", "U+DEAA", "U+DEAB", "U+DEAC", "U+DEAD", "U+DEAE",
      "U+DEAF"})
    \cup
  ({"U+D838"} \X
     {"U+DC00", "U+DC01", "U+DC02", "U+DC03", "U+DC04", "U+DC05", "U+DC06",
      "U+DC08", "U+DC09", "U+DC0A", "U+DC0B", "U+DC0C", "U+DC0D", "U+DC0E",
      "U+DC0F", "U+DC10", "U+DC11", "U+DC12", "U+DC13", "U+DC14", "U+DC15",
      "U+DC16", "U+DC17", "U+DC18", "U+DC1B", "U+DC1C", "U+DC1D", "U+DC1E",
      "U+DC1F", "U+DC20", "U+DC21", "U+DC23", "U+DC24", "U+DC26", "U+DC27",
      "U+DC28", "U+DC29", "U+DC2A", "U+DC30", "U+DC31", "U+DC32", "U+DC33",
      "U+DC34", "U+DC35", "U+DC36", "U+DC37", "U+DC38", "U+DC39", "U+DC3A",
      "U+DC3B", "U+DC3C", "U+DC3D", "U+DC3E", "U+DC3F", "U+DC40", "U+DC41",
      "U+DC42", "U+DC43", "U+DC44", "U+DC45", "U+DC46", "U+DC47", "U+DC48",
      "U+DC49", "U+DC4A", "U+DC4B", "U+DC4C", "U+DC4D", "U+DC4E", "U+DC4F",
      "U+DC50", "U+DC51", "U+DC52", "U+DC53", "U+DC54", "U+DC55", "U+DC56",
      "U+DC57", "U+DC58", "U+DC59", "U+DC5A", "U+DC5B", "U+DC5C", "U+DC5D",
      "U+DC5E", "U+DC5F", "U+DC60", "U+DC61", "U+DC62", "U+DC63", "U+DC64",
      "U+DC65", "U+DC66", "U+DC67", "U+DC68", "U+DC69", "U+DC6A", "U+DC6B",
      "U+DC6C", "U+DC6D", "U+DC8F", "U+DD30", "U+DD31", "U+DD32", "U+DD33",
      "U+DD34", "U+DD35", "U+DD36", "U+DD37", "U+DD38", "U+DD39", "U+DD3A",
      "U+DD3B", "U+DD3C", "U+DD3D", "U+DEAE", "U+DEEC", "U+DEED", "U+DEEE",
      "U+DEEF"})
    \cup
  ({"U+D839"} \X
     {"U+DCEB", "U+DCEC", "U+DCED", "U+DCEE", "U+DCEF", "U+DDEE", "U+DDEF",
      "U+DEE3", "U+DEE6", "U+DEEE", "U+DEEF", "U+DEF5", "U+DEFF"})
    \cup
  ({"U+D83A"} \X
     {"U+DCD0", "U+DCD1", "U+DCD2", "U+DCD3", "U+DCD4", "U+DCD5", "U+DCD6",
      "U+DD44", "U+DD45", "U+DD46", "U+DD47", "U+DD48", "U+DD49", "U+DD4A",
      "U+DD4B"})
    \cup
  ({"U+D83C"} \X
     {"U+DFFB", "U+DFFC", "U+DFFD", "U+DFFE", "U+DFFF"})
    \cup
  ({"U+DB40"} \X
     {"U+DC01", "U+DC20", "U+DC21", "U+DC22", "U+DC23", "U+DC24", "U+DC25",
      "U+DC26", "U+DC27", "U+DC28", "U+DC29", "U+DC2A", "U+DC2B", "U+DC2C",
      "U+DC2D", "U+DC2E", "U+DC2F", "U+DC30", "U+DC31", "U+DC32", "U+DC33",
      "U+DC34", "U+DC35", "U+DC36", "U+DC37", "U+DC38", "U+DC39", "U+DC3A",
      "U+DC3B", "U+DC3C", "U+DC3D", "U+DC3E", "U+DC3F", "U+DC40", "U+DC41",
      "U+DC42", "U+DC43", "U+DC44", "U+DC45", "U+DC46", "U+DC47", "U+DC48",
      "U+DC49", "U+DC4A", "U+DC4B", "U+DC4C", "U+DC4D", "U+DC4E", "U+DC4F",
      "U+DC50", "U+DC51", "U+DC52", "U+DC53", "U+DC54", "U+DC55", "U+DC56",
      "U+DC57", "U+DC58", "U+DC59", "U+DC5A", "U+DC5B", "U+DC5C", "U+DC5D",
      "U+DC5E", "U+DC5F", "U+DC60", "U+DC61", "U+DC62", "U+DC63", "U+DC64",
      "U+DC65", "U+DC66", "U+DC67", "U+DC68", "U+DC69", "U+DC6A", "U+DC6B",
      "U+DC6C", "U+DC6D", "U+DC6E", "U+DC6F", "U+DC70", "U+DC71", "U+DC72",
      "U+DC73", "U+DC74", "U+DC75", "U+DC76", "U+DC77", "U+DC78", "U+DC79",
      "U+DC7A", "U+DC7B", "U+DC7C", "U+DC7D", "U+DC7E", "U+DC7F", "U+DD00",
      "U+DD01", "U+DD02", "U+DD03", "U+DD04", "U+DD05", "U+DD06", "U+DD07",
      "U+DD08", "U+DD09", "U+DD0A", "U+DD0B", "U+DD0C", "U+DD0D", "U+DD0E",
      "U+DD0F", "U+DD10", "U+DD11", "U+DD12", "U+DD13", "U+DD14", "U+DD15",
      "U+DD16", "U+DD17", "U+DD18", "U+DD19", "U+DD1A", "U+DD1B", "U+DD1C",
      "U+DD1D", "U+DD1E", "U+DD1F", "U+DD20", "U+DD21", "U+DD22", "U+DD23",
      "U+DD24", "U+DD25", "U+DD26", "U+DD27", "U+DD28", "U+DD29", "U+DD2A",
      "U+DD2B", "U+DD2C", "U+DD2D", "U+DD2E", "U+DD2F", "U+DD30", "U+DD31",
      "U+DD32", "U+DD33", "U+DD34", "U+DD35", "U+DD36", "U+DD37", "U+DD38",
      "U+DD39", "U+DD3A", "U+DD3B", "U+DD3C", "U+DD3D", "U+DD3E", "U+DD3F",
      "U+DD40", "U+DD41", "U+DD42", "U+DD43", "U+DD44", "U+DD45", "U+DD46",
      "U+DD47", "U+DD48", "U+DD49", "U+DD4A", "U+DD4B", "U+DD4C", "U+DD4D",
      "U+DD4E", "U+DD4F", "U+DD50", "U+DD51", "U+DD52", "U+DD53", "U+DD54",
      "U+DD55", "U+DD56", "U+DD57", "U+DD58", "U+DD59", "U+DD5A", "U+DD5B",
      "U+DD5C", "U+DD5D", "U+DD5E", "U+DD5F", "U+DD60", "U+DD61", "U+DD62",
      "U+DD63", "U+DD64", "U+DD65", "U+DD66", "U+DD67", "U+DD68", "U+DD69",
      "U+DD6A", "U+DD6B", "U+DD6C", "U+DD6D", "U+DD6E", "U+DD6F", "U+DD70",
      "U+DD71", "U+DD72", "U+DD73", "U+DD74", "U+DD75", "U+DD76", "U+DD77",
      "U+DD78", "U+DD79", "U+DD7A", "U+DD7B", "U+DD7C", "U+DD7D", "U+DD7E",
      "U+DD7F", "U+DD80", "U+DD81", "U+DD82", "U+DD83", "U+DD84", "U+DD85",
      "U+DD86", "U+DD87", "U+DD88", "U+DD89", "U+DD8A", "U+DD8B", "U+DD8C",
      "U+DD8D", "U+DD8E", "U+DD8F", "U+DD90", "U+DD91", "U+DD92", "U+DD93",
      "U+DD94", "U+DD95", "U+DD96", "U+DD97", "U+DD98", "U+DD99", "U+DD9A",
      "U+DD9B", "U+DD9C", "U+DD9D", "U+DD9E", "U+DD9F", "U+DDA0", "U+DDA1",
      "U+DDA2", "U+DDA3", "U+DDA4", "U+DDA5", "U+DDA6", "U+DDA7", "U+DDA8",
      "U+DDA9", "U+DDAA", "U+DDAB", "U+DDAC", "U+DDAD", "U+DDAE", "U+DDAF",
      "U+DDB0", "U+DDB1", "U+DDB2", "U+DDB3", "U+DDB4", "U+DDB5", "U+DDB6",
      "U+DDB7", "U+DDB8", "U+DDB9", "U+DDBA", "U+DDBB", "U+DDBC", "U+DDBD",
      "U+DDBE", "U+DDBF", "U+DDC0", "U+DDC1", "U+DDC2", "U+DDC3", "U+DDC4",
      "U+DDC5", "U+DDC6", "U+DDC7", "U+DDC8", "U+DDC9", "U+DDCA", "U+DDCB",
      "U+DDCC", "U+DDCD", "U+DDCE", "U+DDCF", "U+DDD0", "U+DDD1", "U+DDD2",
      "U+DDD3", "U+DDD4", "U+DDD5", "U+DDD6", "U+DDD7", "U+DDD8", "U+DDD9",
      "U+DDDA", "U+DDDB", "U+DDDC", "U+DDDD", "U+DDDE", "U+DDDF", "U+DDE0",
      "U+DDE1", "U+DDE2", "U+DDE3", "U+DDE4", "U+DDE5", "U+DDE6", "U+DDE7",
      "U+DDE8", "U+DDE9", "U+DDEA", "U+DDEB", "U+DDEC", "U+DDED", "U+DDEE",
      "U+DDEF"})

\* Cased characters above U+FFFF that are not Case_Ignorable.
CasedPairs ==
  ({"U+D801"} \X
     {"U+DC00", "U+DC01", "U+DC02", "U+DC03", "U+DC04", "U+DC05", "U+DC06",
      "U+DC07", "U+DC08", "U+DC09", "U+DC0A", "U+DC0B", "U+DC0C", "U+DC0D",
      "U+DC0E", "U+DC0F", "U+DC10", "U+DC11", "U+DC12", "U+DC13", "U+DC14",
      "U+DC15", "U+DC16", "U+DC17", "U+DC18", "U+DC19", "U+DC1A", "U+DC1B",
      "U+DC1C", "U+DC1D", "U+DC1E", "U+DC1F", "U+DC20", "U+DC21", "U+DC22",
      "U+DC23", "U+DC24", "U+DC25", "U+DC26", "U+DC27", "U+DC28", "U+DC29",
      "U+DC2A", "U+DC2B", "U+DC2C", "U+DC2D", "U+DC2E", "U+DC2F", "U+DC30",
      "U+DC31", "U+DC32", "U+DC33", "U+DC34", "U+DC35", "U+DC36", "U+DC37",
      "U+DC38", "U+DC39", "U+DC3A", "U+DC3B", "U+DC3C", "U+DC3D", "U+DC3E",
      "U+DC3F", "U+DC40", "U+DC41", "U+DC42", "U+DC43", "U+DC44", "U+DC45",
      "U+DC46", "U+DC47", "U+DC48", "U+DC49", "U+DC4A", "U+DC4B", "U+DC4C",
      "U+DC4D", "U+DC4E", "U+DC4F", "U+DCB0", "U+DCB1", "U+DCB2", "U+DCB3",
      "U+DCB4", "U+DCB5", "U+DCB6", "U+DCB7", "U+DCB8", "U+DCB9", "U+DCBA",
      "U+DCBB", "U+DCBC", "U+DCBD", "U+DCBE", "U+DCBF", "U+DCC0", "U+DCC1",
      "U+DCC2", "U+DCC3", "U+DCC4", "U+DCC5", "U+DCC6", "U+DCC7", "U+DCC8",
      "U+DCC9", "U+DCCA", "U+DCCB", "U+DCCC", "U+DCCD", "U+DCCE", "U+DCCF",
      "U+DCD0", "U+DCD1", "U+DCD2", "U+DCD3", "U+DCD8", "U+DCD9", "U+DCDA",
      "U+DCDB", "U+DCDC", "U+DCDD", "U+DCDE", "U+DCDF", "U+DCE0", "U+DCE1",
      "U+DCE2", "U+DCE3", "U+DCE4", "U+DCE5", "U+DCE6", "U+DCE7", "U+DCE8",
      "U+DCE9", "U+DCEA", "U+DCEB", "U+DCEC", "U+DCED", "U+DCEE", "U+DCEF",
      "U+DCF0", "U+DCF1", "U+DCF2", "U+DCF3", "U+DCF4", "U+DCF5", "U+DCF6",
      "U+DCF7", "U+DCF8", "U+DCF9", "U+DCFA", "U+DCFB", "U+DD70", "U+DD71",
      "U+DD72", "U+DD73", "U+DD74", "U+DD75", "U+DD76", "U+DD77", "U+DD78",
      "U+DD79", "U+DD7A", "U+DD7C", "U+DD7D", "U+DD7E", "U+DD7F", "U+DD80",
      "U+DD81", "U+DD82", "U+DD83", "U+DD84", "U+DD85", "U+DD86", "U+DD87",
      "U+DD88", "U+DD89", "U+DD8A", "U+DD8C", "U+DD8D", "U+DD8E", "U+DD8F",
      "U+DD90", "U+DD91", "U+DD92", "U+DD94", "U+DD95", "U+DD97", "U+DD98",
      "U+DD99", "U+DD9A", "U+DD9B", "U+DD9C", "U+DD9D", "U+DD9E", "U+DD9F",
      "U+DDA0", "U+DDA1", "U+DDA3", "U+DDA4", "U+DDA5", "U+DDA6", "U+DDA7",
      "U+DDA8", "U+DDA9", "U+DDAA", "U+DDAB", "U+DDAC", "U+DDAD", "U+DDAE",
      "U+DDAF", "U+DDB0", "U+DDB1", "U+DDB3", "U+DDB4", "U+DDB5", "U+DDB6",
      "U+DDB7", "U+DDB8", "U+DDB9", "U+DDBB", "U+DDBC"})
    \cup
  ({"U+D803"} \X
     {"U+DC80", "U+DC81", "U+DC82", "U+DC83", "U+DC84", "U+DC85", "U+DC86",
      "U+DC87", "U+DC88", "U+DC89", "U+DC8A", "U+DC8B", "U+DC8C", "U+DC8D",
      "U+DC8E", "U+DC8F", "U+DC90", "U+DC91", "U+DC92", "U+DC93", "U+DC94",
      "U+DC95", "U+DC96", "U+DC97", "U+DC98", "U+DC99", "U+DC9A", "U+DC9B",
      "U+DC9C", "U+DC9D", "U+DC9E", "U+DC9F", "U+DCA0", "U+DCA1", "U+DCA2",
      "U+DCA3", "U+DCA4", "U+DCA5", "U+DCA6", "U+DCA7", "U+DCA8", "U+DCA9",
      "U+DCAA", "U+DCAB", "U+DCAC", "U+DCAD", "U+DCAE", "U+DCAF", "U+DCB0",
      "U+DCB1", "U+DCB2", "U+DCC0", "U+DCC1", "U+DCC2", "U+DCC3", "U+DCC4",
      "U+DCC5", "U+DCC6", "U+DCC7", "U+DCC8", "U+DCC9", "U+DCCA", "U+DCCB",
      "U+DCCC", "U+DCCD", "U+DCCE", "U+DCCF", "U+DCD0", "U+DCD1", "U+DCD2",
      "U+DCD3", "U+DCD4", "U+DCD5", "U+DCD6", "U+DCD7", "U+DCD8", "U+DCD9",
      "U+DCDA", "U+DCDB", "U+DCDC", "U+DCDD", "U+DCDE", "U+DCDF", "U+DCE0",
      "U+DCE1", "U+DCE2", "U+DCE3", "U+DCE4", "U+DCE5", "U+DCE6", "U+DCE7",
      "U+DCE8", "U+DCE9", "U+DCEA", "U+DCEB", "U+DCEC", "U+DCED", "U+DCEE",
      "U+DCEF", "U+DCF0", "U+DCF1", "U+DCF2", "U+DD50", "U+DD51", "U+DD52",
      "U+DD53", "U+DD54", "U+DD55", "U+DD56", "U+DD57", "U+DD58", "U+DD59",
      "U+DD5A", "U+DD5B", "U+DD5C", "U+DD5D", "U+DD5E", "U+DD5F", "U+DD60",
      "U+DD61", "U+DD62", "U+DD63", "U+DD64", "U+DD65", "U+DD70", "U+DD71",
      "U+DD72", "U+DD73", "U+DD74", "U+DD75", "U+DD76", "U+DD77", "U+DD78",
      "U+DD79", "U+DD7A", "U+DD7B", "U+DD7C", "U+DD7D", "U+DD7E", "U+DD7F",
      "U+DD80", "U+DD81", "U+DD82", "U+DD83", "U+DD84", "U+DD85"})
    \cup
  ({"U+D806"} \X
     {"U+DCA0", "U+DCA1", "U+DCA2", "U+DCA3", "U+DCA4", "U+DCA5", "U+DCA6",
      "U+DCA7", "U+DCA8", "U+DCA9", "U+DCAA", "U+DCAB", "U+DCAC", "U+DCAD",
      "U+DCAE", "U+DCAF", "U+DCB0", "U+DCB1", "U+DCB2", "U+DCB3", "U+DCB4",
      "U+DCB5", "U+DCB6", "U+DCB7", "U+DCB8", "U+DCB9", "U+DCBA", "U+DCBB",
      "U+DCBC", "U+DCBD", "U+DCBE", "U+DCBF", "U+DCC0", "U+DCC1", "U+DCC2",
      "U+DCC3", "U+DCC4", "U+DCC5", "U+DCC6", "U+DCC7", "U+DCC8", "U+DCC9",
      "U+DCCA", "U+DCCB", "U+DCCC", "U+DCCD", "U+DCCE", "U+DCCF", "U+DCD0",
      "U+DCD1", "U+DCD2", "U+DCD3", "U+DCD4", "U+DCD5", "U+DCD6", "U+DCD7",
      "U+DCD8", "U+DCD9", "U+DCDA", "U+DCDB", "U+DCDC", "U+DCDD", "U+DCDE",
      "U+DCDF"})
    \cup
  ({"U+D81B"} \X
     {"U+DE40", "U+DE41", "U+DE42", "U+DE43", "U+DE44", "U+DE45", "U+DE46",
      "U+DE47", "U+DE48", "U+DE49", "U+DE4A", "U+DE4B", "U+DE4C", "U+DE4D",
      "U+DE4E", "U+DE4F", "U+DE50", "U+DE51", "U+DE52", "U+DE53", "U+DE54",
      "U+DE55", "U+DE56", "U+DE57", "U+DE58", "U+DE59", "U+DE5A", "U+DE5B",
      "U+DE5C", "U+DE5D", "U+DE5E", "U+DE5F", "U+DE60", "U+DE61", "U+DE62",
      "U+DE63", "U+DE64", "U+DE65", "U+DE66", "U+DE67", "U+DE68", "U+DE69",
      "U+DE6A", "U+DE6B", "U+DE6C", "U+DE6D", "U+DE6E", "U+DE6F", "U+DE70",
      "U+DE71", "U+DE72", "U+DE73", "U+DE74", "U+DE75", "U+DE76", "U+DE77",
      "U+DE78", "U+DE79", "U+DE7A", "U+DE7B", "U+DE7C", "U+DE7D", "U+DE7E",
      "U+DE7F", "U+DEA0", "U+DEA1", "U+DEA2", "U+DEA3", "U+DEA4", "U+DEA5",
      "U+DEA6", "U+DEA7", "U+DEA8", "U+DEA9", "U+DEAA", "U+DEAB", "U+DEAC",
      "U+DEAD", "U+DEAE", "U+DEAF", "U+DEB0", "U+DEB1", "U+DEB2", "U+DEB3",
      "U+DEB4", "U+DEB5", "U+DEB6", "U+DEB7", "U+DEB8", "U+DEBB", "U+DEBC",
      "U+DEBD", "U+DEBE", "U+DEBF", "U+DEC0", "U+DEC1", "U+DEC2", "U+DEC3",
      "U+DEC4", "U+DEC5", "U+DEC6", "U+DEC7", "U+DEC8", "U+DEC9", "U+DECA",
      "U+DECB", "U+DECC", "U+DECD", "U+DECE", "U+DECF", "U+DED0", "U+DED1",
      "U+DED2", "U+DED3"})
    \cup
  ({"U+D835"} \X
     {"U+DC00", "U+DC01", "U+DC02", "U+DC03", "U+DC04", "U+DC05", "U+DC06",
      "U+DC07", "U+DC08", "U+DC09", "U+DC0A", "U+DC0B", "U+DC0C", "U+DC0D",
      "U+DC0E", "U+DC0F", "U+DC10", "U+DC11", "U+DC12", "U+DC13", "U+DC14",
      "U+DC15", "U+DC16", "U+DC17", "U+DC18", "U+DC19", "U+DC1A", "U+DC1B",
      "U+DC1C", "U+DC1D", "U+DC1E", "U+DC1F", "U+DC20", "U+DC21", "U+DC22",
      "U+DC23", "U+DC24", "U+DC25", "U+DC26", "U+DC27", "U+DC28", "U+DC29",
      "U+DC2A", "U+DC2B", "U+DC2C", "U+DC2D", "U+DC2E", "U+DC2F", "U+DC30",
      "U+DC31", "U+DC32", "U+DC33", "U+DC34", "U+DC35", "U+DC36", "U+DC37",
      "U+DC38", "U+DC39", "U+DC3A", "U+DC3B", "U+DC3C", "U+DC3D", "U+DC3E",
      "U+DC3F", "U+DC40", "U+DC41", "U+DC42", "U+DC43", "U+DC44", "U+DC45",
      "U+DC46", "U+DC47", "U+DC48", "U+DC49", "U+DC4A", "U+DC4B", "U+DC4C",
      "U+DC4D", "U+DC4E", "U+DC4F", "U+DC50", "U+DC51", "U+DC52", "U+DC53",
      "U+DC54", "U+DC56", "U+DC57", "U+DC58", "U+DC59", "U+DC5A", "U+DC5B",
      "U+DC5C", "U+DC5D", "U+DC5E", "U+DC5F", "U+DC60", "U+DC61", "U+DC62",
      "U+DC63", "U+DC64", "U+DC65", "U+DC66", "U+DC67", "U+DC68", "U+DC69",
      "U+DC6A", "U+DC6B", "U+DC6C", "U+DC6D", "U+DC6E", "U+DC6F", "U+DC70",
      "U+DC71", "U+DC72", "U+DC73", "U+DC74", "U+DC75", "U+DC76", "U+DC77",
      "U+DC78", "U+DC79", "U+DC7A", "U+DC7B", "U+DC7C", "U+DC7D", "U+DC7E",
      "U+DC7F", "U+DC80", "U+DC81", "U+DC82", "U+DC83", "U+DC84", "U+DC85",
      "U+DC86", "U+DC87", "U+DC88", "U+DC89", "U+DC8A", "U+DC8B", "U+DC8C",
      "U+DC8D", "U+DC8E", "U+DC8F", "U+DC90", "U+DC91", "U+DC92", "U+DC93",
      "U+DC94", "U+DC95", "U+DC96", "U+DC97", "U+DC98", "U+DC99", "U+DC9A",
      "U+DC9B", "U+DC9C", "U+DC9E", "U+DC9F", "U+DCA2", "U+DCA5", "U+DCA6",
      "U+DCA9", "U+DCAA", "U+DCAB", "U+DCAC", "U+DCAE", "U+DCAF", "U+DCB0",
      "U+DCB1", "U+DCB2", "U+DCB3", "U+DCB4", "U+DCB5", "U+DCB6", "U+DCB7",
      "U+DCB8", "U+DCB9", "U+DCBB", "U+DCBD", "U+DCBE", "U+DCBF", "U+DCC0",
      "U+DCC1", "U+DCC2", "U+DCC3", "U+DCC5", "U+DCC6", "U+DCC7", "U+DCC8",
      "U+DCC9", "U+DCCA", "U+DCCB", "U+DCCC", "U+DCCD", "U+DCCE", "U+DCCF",
      "U+DCD0", "U+DCD1", "U+DCD2", "U+DCD3", "U+DCD4", "U+DCD5", "U+DCD6",
      "U+DCD7", "U+DCD8", "U+DCD9", "U+DCDA", "U+DCDB", "U+DCDC", "U+DCDD",
      "U+DCDE", "U+DCDF", "U+DCE0", "U+DCE1", "U+DCE2", "U+DCE3", "U+DCE4",
      "U+DCE5", "U+DCE6", "U+DCE7", "U+DCE8", "U+DCE9", "U+DCEA", "U+DCEB",
      "U+DCEC", "U+DCED", "U+DCEE", "U+DCEF", "U+DCF0", "U+DCF1", "U+DCF2",
      "U+DCF3", "U+DCF4", "U+DCF5", "U+DCF6", "U+DCF7", "U+DCF8", "U+DCF9",
      "U+DCFA", "U+DCFB", "U+DCFC", "U+DCFD", "U+DCFE", "U+DCFF", "U+DD00",
      "U+DD01", "U+DD02", "U+DD03", "U+DD04", "U+DD05", "U+DD07", "U+DD08",
      "U+DD09", "U+DD0A", "U+DD0D", "U+DD0E", "U+DD0F", "U+DD10", "U+DD11",
      "U+DD12", "U+DD13", "U+DD14", "U+DD16", "U+DD17", "U+DD18", "U+DD19",
      "U+DD1A", "U+DD1B", "U+DD1C", "U+DD1E", "U+DD1F", "U+DD20", "U+DD21",
      "U+DD22", "U+DD23", "U+DD24", "U+DD25", "U+DD26", "U+DD27", "U+DD28",
      "U+DD29", "U+DD2A", "U+DD2B", "U+DD2C", "U+DD2D", "U+DD2E", "U+DD2F",
      "U+DD30", "U+DD31", "U+DD32", "U+DD33", "U+DD34", "U+DD35", "U+DD36",
      "U+DD37", "U+DD38", "U+DD39", "U+DD3B", "U+DD3C", "U+DD3D", "U+DD3E",
      "U+DD40", "U+DD41", "U+DD42", "U+DD43", "U+DD44", "U+DD46", "U+DD4A",
      "U+DD4B", "U+DD4C", "U+DD4D", "U+DD4E", "U+DD4F", "U+DD50", "U+DD52",
      "U+DD53", "U+DD54", "U+DD55", "U+DD56", "U+DD57", "U+DD58", "U+DD59",
      "U+DD5A", "U+DD5B", "U+DD5C", "U+DD5D", "U+DD5E", "U+DD5F", "U+DD60",
      "U+DD61", "U+DD62", "U+DD63", "U+DD64", "U+DD65", "U+DD66", "U+DD67",
      "U+DD68", "U+DD69", "U+DD6A", "U+DD6B", "U+DD6C", "U+DD6D", "U+DD6E",
      "U+DD6F", "U+DD70", "U+DD71", "U+DD72", "U+DD73", "U+DD74", "U+DD75",
      "U+DD76", "U+DD77", "U+DD78", "U+DD79", "U+DD7A", "U+DD7B", "U+DD7C",
      "U+DD7D", "U+DD7E", "U+DD7F", "U+DD80", "U+DD81", "U+DD82", "U+DD83",
      "U+DD84", "U+DD85", "U+DD86", "U+DD87", "U+DD88", "U+DD89", "U+DD8A",
      "U+DD8B", "U+DD8C", "U+DD8D", "U+DD8E", "U+DD8F", "U+DD90", "U+DD91",
      "U+DD92", "U+DD93", "U+DD94", "U+DD95", "U+DD96", "U+DD97", "U+DD98",
      "U+DD99", "U+DD9A", "U+DD9B", "U+DD9C", "U+DD9D", "U+DD9E", "U+DD9F",
      "U+DDA0", "U+DDA1", "U+DDA2", "U+DDA3", "U+DDA4", "U+DDA5", "U+DDA6",
      "U+DDA7", "U+DDA8", "U+DDA9", "U+DDAA", "U+DDAB", "U+DDAC", "U+DDAD",
      "U+DDAE", "U+DDAF", "U+DDB0", "U+DDB1", "U+DDB2", "U+DDB3", "U+DDB4",
      "U+DDB5", "U+DDB6", "U+DDB7", "U+DDB8", "U+DDB9", "U+DDBA", "U+DDBB",
      "U+DDBC", "U+DDBD", "U+DDBE", "U+DDBF", "U+DDC0", "U+DDC1", "U+DDC2",
      "U+DDC3", "U+DDC4", "U+DDC5", "U+DDC6", "U+DDC7", "U+DDC8", "U+DDC9",
      "U+DDCA", "U+DDCB", "U+DDCC", "U+DDCD", "U+DDCE", "U+DDCF", "U+DDD0",
      "U+DDD1", "U+DDD2", "U+DDD3", "U+DDD4", "U+DDD5", "U+DDD6", "U+DDD7",
      "U+DDD8", "U+DDD9", "U+DDDA", "U+DDDB", "U+DDDC", "U+DDDD", "U+DDDE",
      "U+DDDF", "U+DDE0", "U+DDE1", "U+DDE2", "U+DDE3", "U+DDE4", "U+DDE5",
      "U+DDE6", "U+DDE7", "U+DDE8", "U+DDE9", "U+DDEA", "U+DDEB", "U+DDEC",
      "U+DDED", "U+DDEE", "U+DDEF", "U+DDF0", "U+DDF1", "U+DDF2", "U+DDF3",
      "U+DDF4", "U+DDF5", "U+DDF6", "U+DDF7", "U+DDF8", "U+DDF9", "U+DDFA",
      "U+DDFB", "U+DDFC", "U+DDFD", "U+DDFE", "U+DDFF", "U+DE00", "U+DE01",
      "U+DE02", "U+DE03", "U+DE04", "U+DE05", "U+DE06", "U+DE07", "U+DE08",
      "U+DE09", "U+DE0A", "U+DE0B", "U+DE0C", "U+DE0D", "U+DE0E", "U+DE0F",
      "U+DE10", "U+DE11", "U+DE12", "U+DE13", "U+DE14", "U+DE15", "U+DE16",
      "U+DE17", "U+DE18", "U+DE19", "U+DE1A", "U+DE1B", "U+DE1C", "U+DE1D",
      "U+DE1E", "U+DE1F", "U+DE20", "U+DE21", "U+DE22", "U+DE23", "U+DE24",
      "U+DE25", "U+DE26", "U+DE27", "U+DE28", "U+DE29", "U+DE2A", "U+DE2B",
      "U+DE2C", "U+DE2D", "U+DE2E", "U+DE2F", "U+DE30", "U+DE31", "U+DE32",
      "U+DE33", "U+DE34", "U+DE35", "U+DE36", "U+DE37", "U+DE38", "U+DE39",
      "U+DE3A", "U+DE3B", "U+DE3C", "U+DE3D", "U+DE3E", "U+DE3F", "U+DE40",
      "U+DE41", "U+DE42", "U+DE43", "U+DE44", "U+DE45", "U+DE46", "U+DE47",
      "U+DE48", "U+DE49", "U+DE4A", "U+DE4B", "U+DE4C", "U+DE4D", "U+DE4E",
      "U+DE4F", "U+DE50", "U+DE51", "U+DE52", "U+DE53", "U+DE54", "U+DE55",
      "U+DE56", "U+DE57", "U+DE58", "U+DE59", "U+DE5A", "U+DE5B", "U+DE5C",
      "U+DE5D", "U+DE5E", "U+DE5F", "U+DE60", "U+DE61", "U+DE62", "U+DE63",
      "U+DE64", "U+DE65", "U+DE66", "U+DE67", "U+DE68", "U+DE69", "U+DE6A",
      "U+DE6B", "U+DE6C", "U+DE6D", "U+DE6E", "U+DE6F", "U+DE70", "U+DE71",
      "U+DE72", "U+DE73", "U+DE74", "U+DE75", "U+DE76", "U+DE77", "U+DE78",
      "U+DE79", "U+DE7A", "U+DE7B", "U+DE7C", "U+DE7D", "U+DE7E", "U+DE7F",
      "U+DE80", "U+DE81", "U+DE82", "U+DE83", "U+DE84", "U+DE85", "U+DE86",
      "U+DE87", "U+DE88", "U+DE89", "U+DE8A", "U+DE8B", "U+DE8C", "U+DE8D",
      "U+DE8E", "U+DE8F", "U+DE90", "U+DE91", "U+DE92", "U+DE93", "U+DE94",
      "U+DE95", "U+DE96", "U+DE97", "U+DE98", "U+DE99", "U+DE9A", "U+DE9B",
      "U+DE9C", "U+DE9D", "U+DE9E", "U+DE9F", "U+DEA0", "U+DEA1", "U+DEA2",
      "U+DEA3", "U+DEA4", "U+DEA5", "U+DEA8", "U+DEA9", "U+DEAA", "U+DEAB",
      "U+DEAC", "U+DEAD", "U+DEAE", "U+DEAF", "U+DEB0", "U+DEB1", "U+DEB2",
      "U+DEB3", "U+DEB4", "U+DEB5", "U+DEB6", "U+DEB7", "U+DEB8", "U+DEB9",
      "U+DEBA", "U+DEBB", "U+DEBC", "U+DEBD", "U+DEBE", "U+DEBF", "U+DEC0",
      "U+DEC2", "U+DEC3", "U+DEC4", "U+DEC5", "U+DEC6", "U+DEC7", "U+DEC8",
      "U+DEC9", "U+DECA", "U+DECB", "U+DECC", "U+DECD", "U+DECE", "U+DECF",
      "U+DED0", "U+DED1", "U+DED2", "U+DED3", "U+DED4", "U+DED5", "U+DED6",
      "U+DED7", "U+DED8", "U+DED9", "U+DEDA", "U+DEDC", "U+DEDD", "U+DEDE",
      "U+DEDF", "U+DEE0", "U+DEE1", "U+DEE2", "U+DEE3", "U+DEE4", "U+DEE5",
      "U+DEE6", "U+DEE7", "U+DEE8", "U+DEE9", "U+DEEA", "U+DEEB", "U+DEEC",
      "U+DEED", "U+DEEE", "U+DEEF", "U+DEF0", "U+DEF1", "U+DEF2", "U+DEF3",
      "U+DEF4", "U+DEF5", "U+DEF6", "U+DEF7", "U+DEF8", "U+DEF9", "U+DEFA",
      "U+DEFC", "U+DEFD", "U+DEFE", "U+DEFF", "U+DF00", "U+DF01", "U+DF02",
      "U+DF03", "U+DF04", "U+DF05", "U+DF06", "U+DF07", "U+DF08", "U+DF09",
      "U+DF0A", "U+DF0B", "U+DF0C", "U+DF0D", "U+DF0E", "U+DF0F", "U+DF10",
      "U+DF11", "U+DF12", "U+DF13", "U+DF14", "U+DF16", "U+DF17", "U+DF18",
      "U+DF19", "U+DF1A", "U+DF1B", "U+DF1C", "U+DF1D", "U+DF1E", "U+DF1F",
      "U+DF20", "U+DF21", "U+DF22", "U+DF23", "U+DF24", "U+DF25", "U+DF26",
      "U+DF27", "U+DF28", "U+DF29", "U+DF2A", "U+DF2B", "U+DF2C", "U+DF2D",
      "U+DF2E", "U+DF2F", "U+DF30", "U+DF31", "U+DF32", "U+DF33", "U+DF34",
      "U+DF36", "U+DF37", "U+DF38", "U+DF39", "U+DF3A", "U+DF3B", "U+DF3C",
      "U+DF3D", "U+DF3E", "U+DF3F", "U+DF40", "U+DF41", "U+DF42", "U+DF43",
      "U+DF44", "U+DF45", "U+DF46", "U+DF47", "U+DF48", "U+DF49", "U+DF4A",
      "U+DF4B", "U+DF4C", "U+DF4D", "U+DF4E", "U+DF50", "U+DF51", "U+DF52",
      "U+DF53", "U+DF54", "U+DF55", "U+DF56", "U+DF57", "U+DF58", "U+DF59",
      "U+DF5A", "U+DF5B", "U+DF5C", "U+DF5D", "U+DF5E", "U+DF5F", "U+DF60",
      "U+DF61", "U+DF62", "U+DF63", "U+DF64", "U+DF65", "U+DF66", "U+DF67",
      "U+DF68", "U+DF69", "U+DF6A", "U+DF6B", "U+DF6C", "U+DF6D", "U+DF6E",
      "U+DF70", "U+DF71", "U+DF72", "U+DF73", "U+DF74", "U+DF75", "U+DF76",
      "U+DF77", "U+DF78", "U+DF79", "U+DF7A", "U+DF7B", "U+DF7C", "U+DF7D",
      "U+DF7E", "U+DF7F", "U+DF80", "U+DF81", "U+DF82", "U+DF83", "U+DF84",
      "U+DF85", "U+DF86", "U+DF87", "U+DF88", "U+DF8A", "U+DF8B", "U+DF8C",
      "U+DF8D", "U+DF8E", "U+DF8F", "U+DF90", "U+DF91", "U+DF92", "U+DF93",
      "U+DF94", "U+DF95", "U+DF96", "U+DF97", "U+DF98", "U+DF99", "U+DF9A",
      "U+DF9B", "U+DF9C", "U+DF9D", "U+DF9E", "U+DF9F", "U+DFA0", "U+DFA1",
      "U+DFA2", "U+DFA3", "U+DFA4", "U+DFA5", "U+DFA6", "U+DFA7", "U+DFA8",
      "U+DFAA", "U+DFAB", "U+DFAC", "U+DFAD", "U+DFAE", "U+DFAF", "U+DFB0",
      "U+DFB1", "U+DFB2", "U+DFB3", "U+DFB4", "U+DFB5", "U+DFB6", "U+DFB7",
      "U+DFB8", "U+DFB9", "U+DFBA", "U+DFBB", "U+DFBC", "U+DFBD", "U+DFBE",
      "U+DFBF", "U+DFC0", "U+DFC1", "U+DFC2", "U+DFC4", "U+DFC5", "U+DFC6",
      "U+DFC7", "U+DFC8", "U+DFC9", "U+DFCA", "U+DFCB"})
    \cup
  ({"U+D837"} \X
     {"U+DF00", "U+DF01", "U+DF02", "U+DF03", "U+DF04", "U+DF05", "U+DF06",
      "U+DF07", "U+DF08", "U+DF09", "U+DF0B", "U+DF0C", "U+DF0D", "U+DF0E",
      "U+DF0F", "U+DF10", "U+DF11", "U+DF12", "U+DF13", "U+DF14", "U+DF15",
      "U+DF16", "U+DF17", "U+DF18", "U+DF19", "U+DF1A", "U+DF1B", "U+DF1C",
      "U+DF1D", "U+DF1E", "U+DF25", "U+DF26", "U+DF27", "U+DF28", "U+DF29",
      "U+DF2A"})
    \cup
  ({"U+D83A"} \X
     {"U+DD00", "U+DD01", "U+DD02", "U+DD03", "U+DD04", "U+DD05", "U+DD06",
      "U+DD07", "U+DD08", "U+DD09", "U+DD0A", "U+DD0B", "U+DD0C", "U+DD0D",
      "U+DD0E", "U+DD0F", "U+DD10", "U+DD11", "U+DD12", "U+DD13", "U+DD14",
      "U+DD15", "U+DD16", "U+DD17", "U+DD18", "U+DD19", "U+DD1A", "U+DD1B",
      "U+DD1C", "U+DD1D", "U+DD1E", "U+DD1F", "U+DD20", "U+DD21", "U+DD22",
      "U+DD23", "U+DD24", "U+DD25", "U+DD26", "U+DD27", "U+DD28", "U+DD29",
      "U+DD2A", "U+DD2B", "U+DD2C", "U+DD2D", "U+DD2E", "U+DD2F", "U+DD30",
      "U+DD31", "U+DD32", "U+DD33", "U+DD34", "U+DD35", "U+DD36", "U+DD37",
      "U+DD38", "U+DD39", "U+DD3A", "U+DD3B", "U+DD3C", "U+DD3D", "U+DD3E",
      "U+DD3F", "U+DD40", "U+DD41", "U+DD42", "U+DD43"})
    \cup
  ({"U+D83C"} \X
     {"U+DD30", "U+DD31", "U+DD32", "U+DD33", "U+DD34", "U+DD35", "U+DD36",
      "U+DD37", "U+DD38", "U+DD39", "U+DD3A", "U+DD3B", "U+DD3C", "U+DD3D",
      "U+DD3E", "U+DD3F", "U+DD40", "U+DD41", "U+DD42", "U+DD43", "U+DD44",
      "U+DD45", "U+DD46", "U+DD47", "U+DD48", "U+DD49", "U+DD50", "U+DD51",
      "U+DD52", "U+DD53", "U+DD54", "U+DD55", "U+DD56", "U+DD57", "U+DD58",
      "U+DD59", "U+DD5A", "U+DD5B", "U+DD5C", "U+DD5D", "U+DD5E", "U+DD5F",
      "U+DD60", "U+DD61", "U+DD62", "U+DD63", "U+DD64", "U+DD65", "U+DD66",
      "U+DD67", "U+DD68", "U+DD69", "U+DD70", "U+DD71", "U+DD72", "U+DD73",
      "U+DD74", "U+DD75", "U+DD76", "U+DD77", "U+DD78", "U+DD79", "U+DD7A",
      "U+DD7B", "U+DD7C", "U+DD7D", "U+DD7E", "U+DD7F", "U+DD80", "U+DD81",
      "U+DD82", "U+DD83", "U+DD84", "U+DD85", "U+DD86", "U+DD87", "U+DD88",
      "U+DD89"})

\* ----------------------------------------------------- case mapping

\* toUpperCase of one code unit, as the code units it gives: "ß" gives "SS",
\* a ligature its letters; the upper case of "ÿ" and of the micro sign lies
\* above U+00FF; a code unit with no upper case, a surrogate included, gives
\* itself.
UpperChar(c) ==
  IF c \in LowerSet THEN <<UpperOf[c]>>
  ELSE IF c \in UpperSet \/ c \in DigitSet THEN <<c>>
  ELSE IF c \in LatinLowerSet THEN <<LatinUpperOf[c]>>
  ELSE IF c = "ß" THEN <<"S", "S">>
  ELSE IF c = "ÿ" THEN <<"U+0178">>
  ELSE IF c = "µ" THEN <<"U+039C">>
  ELSE IF <<c>> \in UpperAboveSet THEN EntryOf(UpperAboveTable, 2, <<c>>)
  ELSE IF <<c>> \in UpperSpecialSet THEN EntryOf(UpperSpecialTable, 2, <<c>>)[1]
  ELSE <<c>>

\* toLowerCase of one code unit standing alone, as the code units it gives:
\* CAPITAL I WITH DOT ABOVE gives "i" and COMBINING DOT ABOVE.
LowerChar(c) ==
  IF c \in UpperSet THEN <<LowerOf[c]>>
  ELSE IF c \in LowerSet \/ c \in DigitSet THEN <<c>>
  ELSE IF c \in LatinUpperSet THEN <<LatinLowerOf[c]>>
  ELSE IF c = "U+0130" THEN <<"i", "U+0307">>
  ELSE IF <<c>> \in LowerAboveSet THEN EntryOf(LowerAboveTable, 2, <<c>>)
  ELSE <<c>>

\* String.prototype.toUpperCase: code unit by code unit, a surrogate pair
\* as one character.
RECURSIVE ToUpperCase(_)
ToUpperCase(s) ==
  IF s = <<>> THEN <<>>
  ELSE IF Len(s) >= 2 /\ <<s[1], s[2]>> \in UpperPairSet
    THEN <<s[1]>> \o EntryOf(UpperPairTable, 3, <<s[1], s[2]>>) \o ToUpperCase(SubSeq(s, 3, Len(s)))
  ELSE UpperChar(Head(s)) \o ToUpperCase(Tail(s))

\* Final_Sigma, before: going back from position i, past the Case_Ignorable
\* characters, there is a cased letter.
RECURSIVE AfterCasedLetter(_, _)
AfterCasedLetter(s, i) ==
  IF i < 1 THEN FALSE
  ELSE IF i >= 2 /\ <<s[i - 1], s[i]>> \in CaseIgnorablePairs THEN AfterCasedLetter(s, i - 2)
  ELSE IF i >= 2 /\ <<s[i - 1], s[i]>> \in CasedPairs THEN TRUE
  ELSE IF s[i] \in CaseIgnorableSet THEN AfterCasedLetter(s, i - 1)
  ELSE s[i] \in CasedSet

\* Final_Sigma, after: going on from position i, past the Case_Ignorable
\* characters, there is a cased letter.
RECURSIVE BeforeCasedLetter(_, _)
BeforeCasedLetter(s, i) ==
  IF i > Len(s) THEN FALSE
  ELSE IF i < Len(s) /\ <<s[i], s[i + 1]>> \in CaseIgnorablePairs THEN BeforeCasedLetter(s, i + 2)
  ELSE IF i < Len(s) /\ <<s[i], s[i + 1]>> \in CasedPairs THEN TRUE
  ELSE IF s[i] \in CaseIgnorableSet THEN BeforeCasedLetter(s, i + 1)
  ELSE s[i] \in CasedSet

\* toLowerCase of s from position i on: GREEK CAPITAL LETTER SIGMA gives
\* FINAL SIGMA at the end of a word, SMALL SIGMA elsewhere; a surrogate pair
\* is one character.
RECURSIVE LowerFrom(_, _)
LowerFrom(s, i) ==
  IF i > Len(s) THEN <<>>
  ELSE IF s[i] = "U+03A3"
    THEN (IF AfterCasedLetter(s, i - 1) /\ ~BeforeCasedLetter(s, i + 1)
          THEN <<"U+03C2">> ELSE <<"U+03C3">>) \o LowerFrom(s, i + 1)
  ELSE IF i < Len(s) /\ <<s[i], s[i + 1]>> \in LowerPairSet
    THEN <<s[i]>> \o EntryOf(LowerPairTable, 3, <<s[i], s[i + 1]>>) \o LowerFrom(s, i + 2)
  ELSE LowerChar(s[i]) \o LowerFrom(s, i + 1)

\* String.prototype.toLowerCase
ToLowerCase(s) == LowerFrom(s, 1)

RECURSIVE TrimStart(_)
TrimStart(s) ==
  IF s # <<>> /\ IsSpace(Head(s)) THEN TrimStart(Tail(s)) ELSE s

RECURSIVE TrimEnd(_)
TrimEnd(s) ==
  IF s # <<>> /\ IsSpace(s[Len(s)]) THEN TrimEnd(SubSeq(s, 1, Len(s) - 1)) ELSE s

\* String.prototype.trim
Trim(s) == TrimEnd(TrimStart(s))

\* String.prototype.includes
Includes(hay, needle) ==
  \E i \in 0..(Len(hay) - Len(needle)) :
    SubSeq(hay, i + 1, i + Len(needle)) = needle

\* String(n) for an integer n >= 0: its decimal digits.
RECURSIVE DecimalString(_)
DecimalString(n) ==
  IF n < 10 THEN <<Digits[n + 1]>>
  ELSE DecimalString(n \div 10) \o <<Digits[(n % 10) + 1]>>

\* ------------------------------------------------------ program constants

STATUS_TODO == <<"t", "o", "d", "o">>
STATUS_IN_PROGRESS == <<"i", "n", "_", "p", "r", "o", "g", "r", "e", "s", "s">>
STATUS_DONE == <<"d", "o", "n", "e">>
PRIORITY_LOW == <<"l", "o", "w">>
PRIORITY_MEDIUM == <<"m", "e", "d", "i", "u", "m">>
PRIORITY_HIGH == <<"h", "i", "g", "h">>

VALID_STATUS == {STATUS_TODO, STATUS_IN_PROGRESS, STATUS_DONE}
VALID_PRIORITY == {PRIORITY_LOW, PRIORITY_MEDIUM, PRIORITY_HIGH}

\* Set.prototype.has for a set of strings: only a string can be a member.
SetHas(set, v) == v.k = "string" /\ v.s \in set

DEFAULT_PROJECT_KEY == <<"T", "A", "S", "K">>

\* ------------------------------------------------- validateProjectKey

\* Mutant of MatchesKeyPattern: no upper bound on the length.
MatchesKeyPattern_noUpperBound(norm) ==
  /\ Len(norm) >= 2
  /\ IsUpperAZ(norm[1])
  /\ \A i \in 2..Len(norm) : IsUpperAZ(norm[i]) \/ IsDigit(norm[i])

\* /^[A-Z][A-Z0-9]{1,9}$/.test(norm)
MatchesKeyPattern(norm) ==
  /\ Len(norm) >= 2
  /\ Len(norm) <= 10
  /\ IsUpperAZ(norm[1])
  /\ \A i \in 2..Len(norm) : IsUpperAZ(norm[i]) \/ IsDigit(norm[i])

\* Mutant of NormalizeKey: the key is trimmed but not upper-cased.
NormalizeKey_caseKept(s) == Trim(s)

\* key.trim().toUpperCase()
NormalizeKey(s) == ToUpperCase(Trim(s))

\* validateProjectKey(key): [err, norm]; err is the thrown InvalidInputError.
validateProjectKey(key) ==
  LET norm == NormalizeKey(key.s)
  IN IF TypeOf(key) # "string" THEN [err |-> TRUE, norm |-> <<>>]
     ELSE IF ~MatchesKeyPattern(norm) THEN [err |-> TRUE, norm |-> <<>>]
     ELSE [err |-> FALSE, norm |-> norm]

\* ------------------------------------------------------ CodeGenerator

\* this.counters.get(key) ?? 0
CounterOf(counters, key) ==
  IF key \in DOMAIN counters THEN counters[key] ELSE 0

\* Mutant of CounterSet: the new value is not persisted.
CounterSet_notPersisted(counters, key, value) == counters

\* this.counters.set(key, value)
CounterSet(counters, key, value) ==
  [k \in DOMAIN counters \cup {key} |-> IF k = key THEN value ELSE counters[k]]

\* `${key}-${next}`
FormatCode(key, n) == key \o <<"-">> \o DecimalString(n)

\* CodeGenerator.next(projectKey): [err, counters, code]
CodeGenerator_next(counters, projectKey) ==
  LET v == validateProjectKey(projectKey)
      nextValue == CounterOf(counters, v.norm) + 1
  IN IF v.err THEN [err |-> TRUE, counters |-> counters, code |-> <<>>]
     ELSE [err |-> FALSE,
           counters |-> CounterSet(counters, v.norm, nextValue),
           code |-> FormatCode(v.norm, nextValue)]

\* CodeGenerator.peek(projectKey): [err, value]
CodeGenerator_peek(counters, projectKey) ==
  LET v == validateProjectKey(projectKey)
  IN IF v.err THEN [err |-> TRUE, value |-> 0]
     ELSE [err |-> FALSE, value |-> CounterOf(counters, v.norm)]

\* --------------------------------------------------------------- Task

\* An argument that may be an object: k is its kind ("object" for an object
\* literal), the other fields its properties (Undef when absent, as a
\* property read gives).
Obj(title, description, priority, projectKey, status) ==
  [k |-> "object", n |-> 0, s |-> <<>>, title |-> title, description |-> description,
   priority |-> priority, projectKey |-> projectKey, status |-> status]

\* A primitive passed where an object is expected: every property reads undefined.
Prim(v) ==
  [k |-> v.k, n |-> v.n, s |-> v.s, title |-> Undef, description |-> Undef,
   priority |-> Undef, projectKey |-> Undef, status |-> Undef]

\* !x || typeof x !== 'object'
NotAnObject(x) == IsFalsy(x) \/ TypeOf(x) # "object"

\* new Task(p)
Task(id, code, title, description, status, priority, createdAt, updatedAt, completedAt) ==
  [id |-> id, code |-> code, title |-> title, description |-> description,
   status |-> status, priority |-> priority, createdAt |-> createdAt,
   updatedAt |-> updatedAt, completedAt |-> Coalesce(completedAt, Null)]

\* ------------------------------------------------------- applyChanges

\* Each step takes and returns [err, task]: err once a step has thrown, task
\* with the assignments made so far (the object is mutated in place, so the
\* writes made before a throw stay).

\* if (changes.title != null) { ... }
ApplyTitle(r, changes) ==
  IF r.err \/ IsNullish(changes.title) THEN r
  ELSE IF TypeOf(changes.title) # "string" \/ Trim(changes.title.s) = <<>>
       THEN [r EXCEPT !.err = TRUE]
  ELSE [r EXCEPT !.task.title = Trim(changes.title.s)]

\* if (changes.description != null) { ... }
ApplyDescription(r, changes) ==
  IF r.err \/ IsNullish(changes.description) THEN r
  ELSE IF TypeOf(changes.description) # "string" THEN [r EXCEPT !.err = TRUE]
  ELSE [r EXCEPT !.task.description = changes.description]

\* if (changes.priority != null) { ... }
ApplyPriority(r, changes) ==
  IF r.err \/ IsNullish(changes.priority) THEN r
  ELSE IF ~SetHas(VALID_PRIORITY, changes.priority) THEN [r EXCEPT !.err = TRUE]
  ELSE [r EXCEPT !.task.priority = changes.priority.s]

\* Mutant of CompletedAtFor: stamped on every status but todo.
CompletedAtFor_unlessTodo(status, now) ==
  IF status # STATUS_TODO THEN DateAt(now) ELSE Null

\* task.completedAt = task.status === STATUSES.DONE ? new Date() : null
CompletedAtFor(status, now) == IF status = STATUS_DONE THEN DateAt(now) ELSE Null

\* if (changes.status != null) { ... }: the clock is read, for completedAt,
\* when the new status is done; now is what that read gives.
ApplyStatus(r, changes, now) ==
  IF r.err \/ IsNullish(changes.status) THEN r
  ELSE IF ~SetHas(VALID_STATUS, changes.status) THEN [r EXCEPT !.err = TRUE]
  ELSE [r EXCEPT !.task.status = changes.status.s,
                 !.task.completedAt = CompletedAtFor(changes.status.s, now),
                 !.reads = IF changes.status.s = STATUS_DONE THEN r.reads + 1
                           ELSE r.reads]

\* Mutant of StampUpdatedAt: updatedAt is left as it was.
StampUpdatedAt_skipped(r, now, later) == r

\* task.updatedAt = new Date(): the call's first read of the clock (it gives
\* now) when completedAt was not stamped, its second (it gives later) when
\* it was.
StampUpdatedAt(r, now, later) ==
  IF r.err THEN r
  ELSE [r EXCEPT !.task.updatedAt = IF r.reads = 0 THEN now ELSE later,
                 !.reads = r.reads + 1]

\* applyChanges(task, changes): [err, task, reads]; the first new Date() of
\* the call reads now, the second, if there is one, reads later; reads is
\* the number of reads made.
applyChanges(task, changes, now, later) ==
  StampUpdatedAt(
    ApplyStatus(
      ApplyPriority(
        ApplyDescription(
          ApplyTitle([err |-> FALSE, task |-> task, reads |-> 0], changes),
          changes),
        changes),
      changes, now),
    now, later)

\* -------------------------------------------------------- TodoManager

\* The manager's fields: _tasks, _nextId and _codes.counters.
NewTodoManager ==
  [tasks |-> <<>>, nextId |-> 1, counters |-> [k \in {} |-> 0]]

\* ------------------------------------------------------------ objects
\*
\* The objects the classes allocate, for the runs with two managers. A heap
\* is the sequence of the objects allocated so far, and a reference to an
\* object is its position in it; a field that holds an object holds its
\* reference. A TodoManager has the fields _tasks (an Array), _nextId and
\* _codes (a CodeGenerator); a CodeGenerator the field counters (a Map); an
\* Array holds, in elems, the references to its Task objects.

EmptyHeap == <<>>

\* `new`: the heap with the new object in it, and the reference to it.
Allocate(h, object) == [heap |-> Append(h, object), ref |-> Len(h) + 1]

\* new Map()
NewMap == [kind |-> "Map", entries |-> [k \in {} |-> 0]]

\* []
NewArray == [kind |-> "Array", elems |-> <<>>]

\* Mutant of CodeGenerator_constructor: one generator for the whole module,
\* made when the first is asked for and handed out ever after.
CodeGenerator_constructor_singleton(h) ==
  IF \E a \in 1..Len(h) : h[a].kind = "CodeGenerator"
  THEN [heap |-> h, ref |-> CHOOSE a \in 1..Len(h) : h[a].kind = "CodeGenerator"]
  ELSE Allocate(Allocate(h, NewMap).heap,
                [kind |-> "CodeGenerator", counters |-> Len(h) + 1])

\* new CodeGenerator(): a generator whose counters are a new Map.
CodeGenerator_constructor(h) ==
  LET map == Allocate(h, NewMap)
  IN Allocate(map.heap, [kind |-> "CodeGenerator", counters |-> map.ref])

\* new TodoManager(): a manager with a new Array, _nextId 1 and a new
\* CodeGenerator.
TodoManager_constructor(h) ==
  LET array == Allocate(h, NewArray)
      codes == CodeGenerator_constructor(array.heap)
  IN Allocate(codes.heap,
              [kind |-> "TodoManager", _tasks |-> array.ref, _nextId |-> 1,
               _codes |-> codes.ref])

\* What the operations of the manager at `this` work on. Each reaches its
\* data through `this` alone: the Task objects of this._tasks, this._nextId
\* and the entries of this._codes.counters. (The module's own bindings are
\* the frozen STATUSES and PRIORITIES and two Sets that are only read.)
ManagerAt(h, this) ==
  LET elems == h[h[this]._tasks].elems
  IN [tasks |-> [i \in 1..Len(elems) |-> h[elems[i]].fields],
      nextId |-> h[this]._nextId,
      counters |-> h[h[h[this]._codes].counters].entries]

\* The heap once an operation of the manager at `this` has left it as st.
\* this._nextId, the Array this._tasks and the Map this._codes.counters are
\* written where they are. A task of st that the Array held before the call
\* (a manager never holds two tasks of one id) is the same object, written
\* in place by applyChanges; a task it did not hold is the object createTask
\* has made with `new Task`, one a call at most. A task spliced out stays in
\* the heap, out of the Array.
Written(h, this, st) ==
  LET array == h[this]._tasks
      map == h[h[this]._codes].counters
      elems == h[array].elems
      Holds(id) == \E j \in 1..Len(elems) : h[elems[j]].fields.id = id
      Held(id) == elems[CHOOSE j \in 1..Len(elems) : h[elems[j]].fields.id = id]
      made == \E i \in 1..Len(st.tasks) : ~Holds(st.tasks[i].id)
      RefOf(i) == IF Holds(st.tasks[i].id) THEN Held(st.tasks[i].id) ELSE Len(h) + 1
      refs == [i \in 1..Len(st.tasks) |-> RefOf(i)]
  IN [a \in 1..(IF made THEN Len(h) + 1 ELSE Len(h)) |->
        IF a = this THEN [h[this] EXCEPT !._nextId = st.nextId]
        ELSE IF a = array THEN [h[array] EXCEPT !.elems = refs]
        ELSE IF a = map THEN [h[map] EXCEPT !.entries = st.counters]
        ELSE IF \E i \in 1..Len(refs) : refs[i] = a
          THEN [kind |-> "Task",
                fields |-> st.tasks[CHOOSE i \in 1..Len(refs) : refs[i] = a]]
        ELSE h[a]]

\* What a call gives: outcome is "ok" or the error thrown; st the manager
\* after the call; ret the position in st.tasks of the task object returned
\* (0: none); list the positions of the tasks returned in an array.
Returns(st, ret) == [outcome |-> "ok", st |-> st, ret |-> ret, list |-> <<>>]
ReturnsList(st, list) == [outcome |-> "ok", st |-> st, ret |-> 0, list |-> list]
Throws(kind, st) == [outcome |-> kind, st |-> st, ret |-> 0, list |-> <<>>]

\* Mutant of IdEquals: the id is truncated to an integer before comparing.
IdEquals_truncated(t, id) == id.k \in {"number", "fraction"} /\ id.n = t.id

\* t.id === id
IdEquals(t, id) == id.k = "number" /\ id.n = t.id

\* Array.prototype.findIndex, 1-based; 0 when no element matches.
FindIndexById(tasks, id) ==
  IF \E i \in 1..Len(tasks) : IdEquals(tasks[i], id)
  THEN CHOOSE i \in 1..Len(tasks) :
         /\ IdEquals(tasks[i], id)
         /\ \A j \in 1..(i - 1) : ~IdEquals(tasks[j], id)
  ELSE 0

FindIndexByCode(tasks, code) ==
  IF \E i \in 1..Len(tasks) : tasks[i].code = code
  THEN CHOOSE i \in 1..Len(tasks) :
         /\ tasks[i].code = code
         /\ \A j \in 1..(i - 1) : tasks[j].code # code
  ELSE 0

\* Array.prototype.filter over positions lo..Len(tasks), as positions; keep[i]
\* is the callback's verdict on tasks[i].
RECURSIVE FilterFrom(_, _, _)
FilterFrom(tasks, keep, lo) ==
  IF lo > Len(tasks) THEN <<>>
  ELSE (IF keep[lo] THEN <<lo>> ELSE <<>>) \o FilterFrom(tasks, keep, lo + 1)

\* Mutant of NextIdAfter: the counter is not advanced.
NextIdAfter_notAdvanced(nextId) == nextId

\* Mutant of NextIdAfter: the counter is advanced twice.
NextIdAfter_byTwo(nextId) == nextId + 2

\* this._nextId++ : the counter after the allocation.
NextIdAfter(nextId) == nextId + 1

\* Mutant of Push: unshift puts the task first.
Push_first(tasks, task) == <<task>> \o tasks

\* this._tasks.push(task)
Push(tasks, task) == Append(tasks, task)

\* Mutant of createTask: the id is taken before the project key is checked.
createTask_allocatesFirst(st, input, now) ==
  LET title == IF TypeOf(input.title) = "string" THEN Trim(input.title.s) ELSE <<>>
      description == Coalesce(input.description, Str(<<>>))
      priority == Coalesce(input.priority, Str(PRIORITY_MEDIUM))
      projectKey == validateProjectKey(Coalesce(input.projectKey, Str(DEFAULT_PROJECT_KEY)))
      id == st.nextId
      allocated == [st EXCEPT !.nextId = NextIdAfter(st.nextId)]
      gen == CodeGenerator_next(st.counters, Str(projectKey.norm))
      task == Task(id, gen.code, title, description, STATUS_TODO, priority.s,
                   now, now, Null)
  IN IF NotAnObject(input) THEN Throws("InvalidInput", st)
     ELSE IF title = <<>> THEN Throws("InvalidInput", st)
     ELSE IF ~SetHas(VALID_PRIORITY, priority) THEN Throws("InvalidInput", st)
     ELSE IF projectKey.err THEN Throws("InvalidInput", allocated)
     ELSE Returns([allocated EXCEPT !.counters = gen.counters,
                                    !.tasks = Push(st.tasks, task)],
                  Len(st.tasks) + 1)

\* createTask(input) called at time now.
createTask(st, input, now) ==
  LET title == IF TypeOf(input.title) = "string" THEN Trim(input.title.s) ELSE <<>>
      description == Coalesce(input.description, Str(<<>>))
      priority == Coalesce(input.priority, Str(PRIORITY_MEDIUM))
      projectKey == validateProjectKey(Coalesce(input.projectKey, Str(DEFAULT_PROJECT_KEY)))
      id == st.nextId
      allocated == [st EXCEPT !.nextId = NextIdAfter(st.nextId)]
      gen == CodeGenerator_next(st.counters, Str(projectKey.norm))
      task == Task(id, gen.code, title, description, STATUS_TODO, priority.s,
                   now, now, Null)
  IN IF NotAnObject(input) THEN Throws("InvalidInput", st)
     ELSE IF title = <<>> THEN Throws("InvalidInput", st)
     ELSE IF ~SetHas(VALID_PRIORITY, priority) THEN Throws("InvalidInput", st)
     ELSE IF projectKey.err THEN Throws("InvalidInput", st)
     ELSE IF gen.err THEN Throws("InvalidInput", allocated)
     ELSE Returns([allocated EXCEPT !.counters = gen.counters,
                                    !.tasks = Push(st.tasks, task)],
                  Len(st.tasks) + 1)

\* listTasks(): a new array of the same task objects.
listTasks(st) == ReturnsList(st, FilterFrom(st.tasks, [i \in 1..Len(st.tasks) |-> TRUE], 1))

\* Mutant of getTask: a missing task throws the wrong error.
getTask_wrongError(st, id) ==
  LET t == FindIndexById(st.tasks, id)
  IN IF TypeOf(id) # "number" THEN Throws("InvalidInput", st)
     ELSE IF t = 0 THEN Throws("InvalidInput", st)
     ELSE Returns(st, t)

\* getTask(id)
getTask(st, id) ==
  LET t == FindIndexById(st.tasks, id)
  IN IF TypeOf(id) # "number" THEN Throws("InvalidInput", st)
     ELSE IF t = 0 THEN Throws("NotFound", st)
     ELSE Returns(st, t)

\* Mutant of MatchesCodePattern: \d* in place of \d+.
MatchesCodePattern_digitsOptional(s) ==
  \E i \in 1..Len(s) :
    /\ s[i] = "-"
    /\ MatchesKeyPattern(SubSeq(s, 1, i - 1))
    /\ \A j \in (i + 1)..Len(s) : IsDigit(s[j])

\* /^[A-Z][A-Z0-9]{1,9}-\d+$/.test(s)
MatchesCodePattern(s) ==
  \E i \in 1..Len(s) :
    /\ s[i] = "-"
    /\ MatchesKeyPattern(SubSeq(s, 1, i - 1))
    /\ i < Len(s)
    /\ \A j \in (i + 1)..Len(s) : IsDigit(s[j])

\* Mutant of findByCode: the task found is taken out of the store.
findByCode_takesOut(st, code) ==
  LET norm == ToUpperCase(Trim(code.s))
      t == FindIndexByCode(st.tasks, norm)
  IN IF TypeOf(code) # "string" THEN Throws("InvalidInput", st)
     ELSE IF ~MatchesCodePattern(norm) THEN Throws("InvalidInput", st)
     ELSE IF t = 0 THEN Throws("NotFound", st)
     ELSE Returns([st EXCEPT !.tasks = SubSeq(st.tasks, 1, t - 1)
                                        \o SubSeq(st.tasks, t + 1, Len(st.tasks))], 0)

\* findByCode(code)
findByCode(st, code) ==
  LET norm == ToUpperCase(Trim(code.s))
      t == FindIndexByCode(st.tasks, norm)
  IN IF TypeOf(code) # "string" THEN Throws("InvalidInput", st)
     ELSE IF ~MatchesCodePattern(norm) THEN Throws("InvalidInput", st)
     ELSE IF t = 0 THEN Throws("NotFound", st)
     ELSE Returns(st, t)

\* The task at position i replaced by what applyChanges left of it.
WithTask(st, i, task) == [st EXCEPT !.tasks[i] = task]

\* Mutant of updateTask: the changes object is handed to applyChanges whole.
updateTask_passesChanges(st, id, changes, now) ==
  LET found == getTask(st, id)
      applied == applyChanges(st.tasks[found.ret], changes, now, now)
  IN IF found.outcome # "ok" THEN found
     ELSE IF NotAnObject(changes) THEN Throws("InvalidInput", st)
     ELSE IF applied.err
          THEN Throws("InvalidInput", WithTask(st, found.ret, applied.task))
     ELSE Returns(WithTask(st, found.ret, applied.task), found.ret)

\* updateTask(id, changes) called at time now.
updateTask(st, id, changes, now) ==
  LET found == getTask(st, id)
      applied == applyChanges(st.tasks[found.ret],
                              Obj(changes.title, changes.description,
                                  changes.priority, Undef, Undef),
                              now, now)
  IN IF found.outcome # "ok" THEN found
     ELSE IF NotAnObject(changes) THEN Throws("InvalidInput", st)
     ELSE IF applied.err
          THEN Throws("InvalidInput", WithTask(st, found.ret, applied.task))
     ELSE Returns(WithTask(st, found.ret, applied.task), found.ret)

\* A successful changeStatus reads the clock twice when the new status is
\* done (lines 141 and 143), once otherwise.
ReadsClockTwice(newStatus) == newStatus.k = "string" /\ newStatus.s = STATUS_DONE

\* changeStatus(id, newStatus): the call's first read of the clock gives
\* now, its second (made when the new status is done) gives later.
changeStatus(st, id, newStatus, now, later) ==
  LET found == getTask(st, id)
      applied == applyChanges(st.tasks[found.ret],
                              Obj(Undef, Undef, Undef, Undef, newStatus),
                              now, later)
  IN IF found.outcome # "ok" THEN found
     ELSE IF applied.err
          THEN Throws("InvalidInput", WithTask(st, found.ret, applied.task))
     ELSE Returns(WithTask(st, found.ret, applied.task), found.ret)

\* Mutant of Splice: splice(idx) without a count removes to the end.
Splice_toEnd(tasks, idx) == SubSeq(tasks, 1, idx - 1)

\* Mutant of Splice: splice(idx, 0) removes nothing.
Splice_none(tasks, idx) == tasks

\* this._tasks.splice(idx, 1) for the 1-based position idx.
Splice(tasks, idx) ==
  SubSeq(tasks, 1, idx - 1) \o SubSeq(tasks, idx + 1, Len(tasks))

\* Mutant of removeTask: the id of the removed task is given back.
removeTask_reclaimsId(st, id) ==
  LET idx == FindIndexById(st.tasks, id)
  IN IF TypeOf(id) # "number" THEN Throws("InvalidInput", st)
     ELSE IF idx = 0 THEN Throws("NotFound", st)
     ELSE Returns([st EXCEPT !.tasks = Splice(st.tasks, idx),
                             !.nextId = st.nextId - 1], 0)

\* removeTask(id)
removeTask(st, id) ==
  LET idx == FindIndexById(st.tasks, id)
  IN IF TypeOf(id) # "number" THEN Throws("InvalidInput", st)
     ELSE IF idx = 0 THEN Throws("NotFound", st)
     ELSE Returns([st EXCEPT !.tasks = Splice(st.tasks, idx)], 0)

\* filterByStatus(status)
filterByStatus(st, status) ==
  IF ~SetHas(VALID_STATUS, status) THEN Throws("InvalidInput", st)
  ELSE ReturnsList(st, FilterFrom(st.tasks, [i \in 1..Len(st.tasks) |-> st.tasks[i].status = status.s], 1))

\* filterByPriority(priority)
filterByPriority(st, priority) ==
  IF ~SetHas(VALID_PRIORITY, priority) THEN Throws("InvalidInput", st)
  ELSE ReturnsList(st, FilterFrom(st.tasks, [i \in 1..Len(st.tasks) |-> st.tasks[i].priority = priority.s], 1))

\* includesCI(haystack, needle)
includesCI(haystack, needle) == Includes(ToLowerCase(haystack), ToLowerCase(needle))

\* searchByTitle(query)
searchByTitle(st, query) ==
  IF TypeOf(query) # "string" THEN Throws("InvalidInput", st)
  ELSE IF Trim(query.s) = <<>> THEN Throws("InvalidInput", st)
  ELSE ReturnsList(st, FilterFrom(st.tasks,
                [i \in 1..Len(st.tasks) |-> includesCI(st.tasks[i].title, Trim(query.s))], 1))

\* Mutant of countByStatus: keys only for the statuses some task has.
countByStatus_presentOnly(st) ==
  [s \in {st.tasks[i].status : i \in 1..Len(st.tasks)} |->
     Cardinality({i \in 1..Len(st.tasks) : st.tasks[i].status = s})]

\* countByStatus(): the count under each of the three keys.
countByStatus(st) ==
  [s \in VALID_STATUS |->
     Cardinality({i \in 1..Len(st.tasks) : st.tasks[i].status = s})]

\* ------------------------------------------------------------- inputs

\* Titles: absent, empty, blank, "B", "é" between a carriage return and a
\* no-break space (trims to "é"), not a string.
TitleInputs ==
  {Undef, Str(<<>>), Str(<<" ">>), Str(<<"B">>), Str(<<"\r", "é", " ">>), Num(7)}

\* Descriptions: absent, a string, not a string.
DescriptionInputs == {Undef, Str(<<"d">>), Num(7)}

\* Priorities: absent, a valid one, an unknown one.
PriorityInputs ==
  {Undef, Str(PRIORITY_HIGH), Str(<<"u", "r", "g", "e", "n", "t">>)}

\* Project keys: absent, " ab ", "AB" and "ab" before a carriage return and
\* a line feed (all AB), too short, starting with a digit, eleven
\* characters, not a string.
KeyInputs ==
  {Undef, Str(<<" ", "a", "b", " ">>), Str(<<"A", "B">>),
   Str(<<"a", "b", "\r", "\n">>),
   Str(<<"a">>), Str(<<"1", "a">>),
   Str(<<"a", "b", "c", "d", "e", "f", "g", "h", "i", "j", "k">>), Num(7)}

\* Statuses: the three valid ones, "paused", absent, null, not a string.
StatusInputs ==
  {Str(STATUS_TODO), Str(STATUS_IN_PROGRESS), Str(STATUS_DONE),
   Str(<<"p", "a", "u", "s", "e", "d">>), Undef, Null, Num(7)}

\* Ids: 0 (never issued), 1..MaxIdArg, 1.5, NaN, the string "1", absent.
IdInputs ==
  {Num(i) : i \in 0..MaxIdArg} \cup {Frac(1), NaN, Str(<<"1">>), Undef}

\* Values passed where an object is expected.
NonObjectInputs == {Prim(Undef), Prim(Null), Prim(Str(<<"x">>))}

\* createTask payloads: a valid one with one field varied at a time, and
\* the non-objects.
CreateInputs ==
  {Obj(t, Undef, Undef, Undef, Undef) : t \in TitleInputs}
    \cup {Obj(Str(<<"B">>), d, Undef, Undef, Undef) : d \in DescriptionInputs}
    \cup {Obj(Str(<<"B">>), Undef, p, Undef, Undef) : p \in PriorityInputs}
    \cup {Obj(Str(<<"B">>), Undef, Undef, key, Undef) : key \in KeyInputs}
    \cup NonObjectInputs

\* A changes object that also carries the fields updateTask does not take:
\* {title: ' a ', status: 'done', id: 9, code: 'ZZ-9', createdAt: <date 9>,
\*  completedAt: <date 9>}.
ChangesWithExtras ==
  [k |-> "object", n |-> 0, s |-> <<>>, title |-> Str(<<" ", "a", " ">>),
   description |-> Undef, priority |-> Undef, projectKey |-> Undef,
   status |-> Str(STATUS_DONE), id |-> Num(9), code |-> Str(<<"Z", "Z", "-", "9">>),
   createdAt |-> DateAt(9), completedAt |-> DateAt(9)]

\* updateTask changes: every combination of absent, valid and invalid for
\* the three fields, a status alone, the object with the fields not taken,
\* and the non-objects.
ChangesInputs ==
  {Obj(t, d, p, Undef, Undef) :
     t \in {Undef, Str(<<" ", "a", " ">>), Str(<<" ">>)},
     d \in DescriptionInputs,
     p \in PriorityInputs}
    \cup {Obj(Undef, Undef, Undef, Undef, Str(STATUS_IN_PROGRESS)), ChangesWithExtras}
    \cup NonObjectInputs

\* updateTask calls: every id with one valid change, and every change on
\* the ids 1..MaxIdArg.
UpdateCalls ==
  (IdInputs \X {Obj(Str(<<" ", "a", " ">>), Undef, Undef, Undef, Undef)})
    \cup ({Num(i) : i \in 1..MaxIdArg} \X ChangesInputs)

\* changeStatus calls: every id with status done, and every status on the
\* ids 1..MaxIdArg.
ChangeStatusCalls ==
  (IdInputs \X {Str(STATUS_DONE)})
    \cup ({Num(i) : i \in 1..MaxIdArg} \X StatusInputs)

\* Codes: "TASK-1", " ab-1 " (AB-1), "AB-2", no digits, no key, not a string.
CodeInputs ==
  {Str(<<"T", "A", "S", "K", "-", "1">>), Str(<<" ", "a", "b", "-", "1", " ">>),
   Str(<<"A", "B", "-", "2">>), Str(<<"A", "B", "-">>), Str(<<"-", "1">>),
   Str(<<"A", "B", "1">>), Num(7)}

\* Search queries: "A", " b " (trims to "b"), "É", blank, a form feed alone,
\* not a string.
QueryInputs ==
  {Str(<<"A">>), Str(<<" ", "b", " ">>), Str(<<"É">>), Str(<<" ">>),
   Str(<<"\f">>), Num(7)}

\* ------------------------------------------------------ state machine

VARIABLES
  tasks,     \* this._tasks: the stored Task objects, in array order
  nextId,    \* this._nextId
  counters,  \* this._codes.counters
  now,       \* the time `new Date()` reads
  last,      \* the last call: its name, arguments, outcome and return value
  steps,     \* steps taken so far: calls and clock ticks
  created,   \* successful createTask calls so far
  issued,    \* successful createTask calls so far, per normalized project key
  removed,   \* the ids removeTask has removed so far
  lastCode,  \* the code last returned by CodeGenerator.next, per normalized key
  snapshot,  \* the array the last listTasks() call returned
  heap,      \* the objects allocated so far (runs with two managers)
  other,     \* the reference to the second TodoManager instance
  otherCreated  \* successful createTask calls on the second instance so far

vars ==
  <<tasks, nextId, counters, now, last, steps, created, issued, removed,
    lastCode, snapshot, heap, other, otherCreated>>

\* The manager as the operations take it.
TM == [tasks |-> tasks, nextId |-> nextId, counters |-> counters]

\* No object argument.
NoInput == Prim(Undef)

\* An array of task objects as a caller holds it: refs are the objects it
\* holds (a Task object is identified by its id), in order; alias tells that
\* it is the array this._tasks itself, whose elements are then the store's.
NoArray == [alias |-> FALSE, refs |-> <<>>]

\* Mutant of SpreadCopy: the array this._tasks itself is returned.
SpreadCopy_sameArray(ts) == [alias |-> TRUE, refs |-> <<>>]

\* [...this._tasks]: a new array holding the same task objects.
SpreadCopy(ts) == [alias |-> FALSE, refs |-> [i \in 1..Len(ts) |-> ts[i].id]]

\* The task objects an array holds now, given the store's array.
ElementsOf(array, ts) ==
  IF array.alias THEN [i \in 1..Len(ts) |-> ts[i].id] ELSE array.refs

\* A note per key: f with v noted under k.
Noted(f, k, v) == [x \in DOMAIN f \cup {k} |-> IF x = k THEN v ELSE f[x]]

\* The record of a call: id its id argument, arg its other scalar argument,
\* input its object argument, and what it gave.
Call(op, id, arg, input, r) ==
  [op |-> op, id |-> id, arg |-> arg, input |-> input,
   outcome |-> r.outcome, ret |-> r.ret, list |-> r.list]

\* The two managers constructed at the start, one after the other. The single
\* runs follow the first through tasks, nextId and counters alone.
FirstConstructed == TodoManager_constructor(EmptyHeap)
OtherConstructed == TodoManager_constructor(FirstConstructed.heap)
first == FirstConstructed.ref

\* The manager's fields become those the call left.
Becomes(r) ==
  /\ tasks' = r.st.tasks
  /\ nextId' = r.st.nextId
  /\ counters' = r.st.counters
  /\ UNCHANGED <<heap, other, otherCreated>>

Init ==
  /\ tasks = NewTodoManager.tasks
  /\ nextId = NewTodoManager.nextId
  /\ counters = NewTodoManager.counters
  /\ now = 0
  /\ last = Call("new", Undef, Undef, NoInput, Returns(NewTodoManager, 0))
  /\ steps = 0
  /\ created = 0
  /\ issued = [k \in {} |-> 0]
  /\ removed = {}
  /\ lastCode = [k \in {} |-> <<>>]
  /\ snapshot = NoArray
  /\ heap = OtherConstructed.heap
  /\ other = OtherConstructed.ref
  /\ otherCreated = 0

\* Time passes between two calls.
Tick ==
  /\ steps < MaxSteps
  /\ now < MaxTime
  /\ now' = now + 1
  /\ steps' = steps + 1
  /\ UNCHANGED <<tasks, nextId, counters, last, created, issued, removed,
                 lastCode, snapshot, heap, other, otherCreated>>

\* A tally per key: the count under k (0 when none), and the tally with the
\* count under k raised by one.
Tally(f, k) == IF k \in DOMAIN f THEN f[k] ELSE 0
TallyUp(f, k) == [x \in DOMAIN f \cup {k} |-> IF x = k THEN Tally(f, k) + 1 ELSE f[x]]

\* The project key a createTask payload names, normalized.
KeyOf(input) ==
  NormalizeKey(Coalesce(input.projectKey, Str(DEFAULT_PROJECT_KEY)).s)

CreateTask ==
  /\ steps < MaxSteps
  /\ \E input \in CreateInputs :
       LET r == createTask(TM, input, now)
       IN /\ Becomes(r)
          /\ last' = Call("createTask", Undef, Undef, input, r)
          /\ created' = IF r.outcome = "ok" THEN created + 1 ELSE created
          /\ issued' = IF r.outcome = "ok" THEN TallyUp(issued, KeyOf(input)) ELSE issued
          /\ lastCode' = IF r.outcome = "ok"
                         THEN Noted(lastCode, KeyOf(input), r.st.tasks[r.ret].code)
                         ELSE lastCode
  /\ steps' = steps + 1
  /\ UNCHANGED <<now, removed, snapshot>>

GetTask ==
  /\ steps < MaxSteps
  /\ \E id \in IdInputs :
       LET r == getTask(TM, id)
       IN Becomes(r) /\ last' = Call("getTask", id, Undef, NoInput, r)
  /\ steps' = steps + 1
  /\ UNCHANGED <<now, created, issued, removed, lastCode, snapshot>>

UpdateTask ==
  /\ steps < MaxSteps
  /\ \E call \in UpdateCalls :
       LET id == call[1]
           changes == call[2]
           r == updateTask(TM, id, changes, now)
       IN Becomes(r) /\ last' = Call("updateTask", id, Undef, changes, r)
  /\ steps' = steps + 1
  /\ UNCHANGED <<now, created, issued, removed, lastCode, snapshot>>

\* The clock may move between the two reads of a call that makes two.
ChangeStatus ==
  /\ steps < MaxSteps
  /\ \E call \in ChangeStatusCalls, later \in now..MaxTime :
       LET id == call[1]
           newStatus == call[2]
           r == changeStatus(TM, id, newStatus, now, later)
       IN /\ later # now => (r.outcome = "ok" /\ ReadsClockTwice(newStatus))
          /\ Becomes(r)
          /\ last' = Call("changeStatus", id, newStatus, NoInput, r)
          /\ now' = later
  /\ steps' = steps + 1
  /\ UNCHANGED <<created, issued, removed, lastCode, snapshot>>

RemoveTask ==
  /\ steps < MaxSteps
  /\ \E id \in IdInputs :
       LET r == removeTask(TM, id)
       IN /\ Becomes(r)
          /\ last' = Call("removeTask", id, Undef, NoInput, r)
          /\ removed' = IF r.outcome = "ok" THEN removed \cup {id.n} ELSE removed
  /\ steps' = steps + 1
  /\ UNCHANGED <<now, created, issued, lastCode, snapshot>>

\* A call that reads: op applied to one scalar argument.
Reads(op, arg, r) ==
  /\ steps < MaxSteps
  /\ Becomes(r)
  /\ last' = Call(op, Undef, arg, NoInput, r)
  /\ steps' = steps + 1
  /\ UNCHANGED <<now, created, issued, removed, lastCode>>

ListTasks ==
  /\ Reads("listTasks", Undef, listTasks(TM))
  /\ snapshot' = SpreadCopy(tasks)

FindByCode ==
  /\ \E code \in CodeInputs : Reads("findByCode", code, findByCode(TM, code))
  /\ UNCHANGED snapshot

FilterByStatus ==
  /\ \E status \in StatusInputs :
       Reads("filterByStatus", status, filterByStatus(TM, status))
  /\ UNCHANGED snapshot

FilterByPriority ==
  /\ \E priority \in PriorityInputs :
       Reads("filterByPriority", priority, filterByPriority(TM, priority))
  /\ UNCHANGED snapshot

SearchByTitle ==
  /\ \E query \in QueryInputs :
       Reads("searchByTitle", query, searchByTitle(TM, query))
  /\ UNCHANGED snapshot

\* countByStatus() returns a fresh object; the counts are countByStatus(TM).
CountByStatus ==
  /\ Reads("countByStatus", Undef, ReturnsList(TM, <<>>))
  /\ UNCHANGED snapshot

\* this._codes.peek(projectKey)
Peek ==
  /\ \E key \in KeyInputs :
       Reads("peek", key,
             IF CodeGenerator_peek(counters, key).err
             THEN Throws("InvalidInput", TM) ELSE Returns(TM, 0))
  /\ UNCHANGED snapshot

Next ==
  \/ Tick
  \/ CreateTask
  \/ ListTasks
  \/ GetTask
  \/ FindByCode
  \/ UpdateTask
  \/ ChangeStatus
  \/ RemoveTask
  \/ FilterByStatus
  \/ FilterByPriority
  \/ SearchByTitle
  \/ CountByStatus
  \/ Peek

Spec == Init /\ [][Next]_vars

\* ------------------------------------- one CodeGenerator, used directly

\* Keys handed to the generator: those of KeyInputs, "task", a long s
\* (U+017F) before "a", whose upper case is "SA", and two ligatures: fi
\* (U+FB01), whose upper case is "FI", and st (U+FB06) between blanks,
\* whose upper case is "ST".
GeneratorKeys ==
  KeyInputs
    \cup {Str(<<"t", "a", "s", "k">>), Str(<<"U+017F", "a">>), Str(<<"U+FB01">>),
          Str(<<" ", "U+FB06", " ">>)}

\* The record of a generator call: arg the key; what next returns is a
\* string, kept in list as its characters; what peek returns is in ret.
GeneratorCall(op, key, err, number, code) ==
  [op |-> op, id |-> Undef, arg |-> key, input |-> NoInput,
   outcome |-> IF err THEN "InvalidInput" ELSE "ok", ret |-> number, list |-> code]

\* this._codes.next(projectKey)
GeneratorNext ==
  /\ steps < MaxSteps
  /\ \E key \in GeneratorKeys :
       LET r == CodeGenerator_next(counters, key)
       IN /\ counters' = r.counters
          /\ last' = GeneratorCall("next", key, r.err, 0, r.code)
          /\ lastCode' = IF r.err THEN lastCode
                         ELSE Noted(lastCode, ToUpperCase(Trim(key.s)), r.code)
  /\ steps' = steps + 1
  /\ UNCHANGED <<tasks, nextId, now, created, issued, removed, snapshot,
                 heap, other, otherCreated>>

\* this._codes.peek(projectKey)
GeneratorPeek ==
  /\ steps < MaxSteps
  /\ \E key \in GeneratorKeys :
       LET r == CodeGenerator_peek(counters, key)
       IN last' = GeneratorCall("peek", key, r.err, r.value, <<>>)
  /\ steps' = steps + 1
  /\ UNCHANGED <<tasks, nextId, counters, now, created, issued, removed,
                 lastCode, snapshot, heap, other, otherCreated>>

GeneratorStep == GeneratorNext \/ GeneratorPeek

SpecGenerator == Init /\ [][GeneratorStep]_vars

\* ------------------------------------------------------------- claims

\* A step that is a call, not a tick of the clock between calls.
CallStep == steps' = steps + 1 /\ ~Tick

\* The last step was a call of op that returned normally.
Returned(op) == last.op = op /\ last.outcome = "ok"

\* "K-k" written out, for k below 10.
CodeText(K, k) == K \o <<"-", Digits[k + 1]>>

KEY_AB == <<"A", "B">>

StoredIds == {tasks[i].id : i \in 1..Len(tasks)}

\* C1: the n-th successful createTask returns id n, whatever calls (failing
\* ones and removals included) came before: the task just created carries
\* the number of successful creations so far, and a creation made now would
\* carry that number plus one.
ThmC1_NthCreateReturnsIdN ==
  /\ Returned("createTask") => tasks[last.ret].id = created
  /\ \A input \in CreateInputs :
       LET r == createTask(TM, input, now)
       IN r.outcome = "ok" => r.st.tasks[r.ret].id = created + 1

\* C1 witness: a second creation after the first task was removed.
WitC1_CreateAfterRemoval ==
  Returned("createTask") /\ created = 2 /\ Len(tasks) = 1

\* C2: the k-th successful createTask for project key K returns code "K-k",
\* whatever creations for other keys and removals came in between.
ThmC2_KthCreateForKeyReturnsKk ==
  /\ Returned("createTask") =>
       tasks[last.ret].code = CodeText(KeyOf(last.input), issued[KeyOf(last.input)])
  /\ \A input \in CreateInputs :
       LET r == createTask(TM, input, now)
       IN r.outcome = "ok" =>
            r.st.tasks[r.ret].code =
              CodeText(KeyOf(input), Tally(issued, KeyOf(input)) + 1)

\* C2 witness: AB-2 issued after a TASK creation and a removal in between.
WitC2_SecondCodeAfterOtherKeyAndRemoval ==
  /\ Returned("createTask")
  /\ tasks[last.ret].code = CodeText(KEY_AB, 2)
  /\ Tally(issued, DEFAULT_PROJECT_KEY) = 1
  /\ Len(tasks) = 2

\* C3: no two stored tasks have the same id, and no two the same code.
ThmC3_IdsAndCodesUnique ==
  \A i, j \in 1..Len(tasks) :
    i # j => tasks[i].id # tasks[j].id /\ tasks[i].code # tasks[j].code

\* C3 witness: two tasks stored after three creations and a removal.
WitC3_TwoTasksAfterRemoval ==
  Returned("createTask") /\ Len(tasks) = 2 /\ created = 3

\* C4: for every stored task, completedAt is non-null exactly when status
\* is done.
ThmC4_CompletedAtIffDone ==
  \A i \in 1..Len(tasks) :
    (tasks[i].completedAt.k # "null") <=> (tasks[i].status = STATUS_DONE)

\* C4 witness: changeStatus has just made a task done, at a time after its
\* creation.
WitC4_DoneAfterChangeStatus ==
  /\ Returned("changeStatus")
  /\ tasks[last.ret].status = STATUS_DONE
  /\ tasks[last.ret].completedAt = DateAt(1)
  /\ tasks[last.ret].createdAt = 0

\* C5: an updateTask that fails with InvalidInput leaves the tasks as they
\* were before the call.
CexC5_FailedUpdateLeavesTask ==
  [][(CallStep /\ last'.op = "updateTask" /\ last'.outcome = "InvalidInput")
       => tasks' = tasks]_vars

\* C6: on an existing id, changeStatus fails with InvalidInput for every
\* newStatus outside todo, in_progress, done (null and absent included) and
\* succeeds, setting the status, for each of the three.
CexC6_ChangeStatusValidatesNewStatus ==
  (last.op = "changeStatus" /\ FindIndexById(tasks, last.id) # 0) =>
    IF last.arg.k = "string" /\ last.arg.s \in {STATUS_TODO, STATUS_IN_PROGRESS, STATUS_DONE}
    THEN /\ last.outcome = "ok"
         /\ tasks[FindIndexById(tasks, last.id)].status = last.arg.s
    ELSE last.outcome = "InvalidInput"

\* C7: createTask with a description that is present but not a string fails
\* with InvalidInput, and every stored task's description is a string.
CexC7_DescriptionIsString ==
  /\ (last.op = "createTask" /\ last.input.description.k \notin {"undefined", "string"})
       => last.outcome = "InvalidInput"
  /\ \A i \in 1..Len(tasks) : tasks[i].description.k = "string"

\* C8 as stated: getTask and removeTask fail with InvalidInput for every id
\* that is not an integer.
CexC8_NonIntegerIdIsInvalidInput ==
  (last.op \in {"getTask", "removeTask"} /\ last.id.k # "number")
    => last.outcome = "InvalidInput"

\* C8 amended: getTask and removeTask fail with InvalidInput exactly for the
\* ids that are not numbers; a number without an integer value (1.5, NaN)
\* fails with NotFound; only an integer id yields a task or a removal.
ThmC8_NonNumberIdIsInvalidInput ==
  /\ last.op \in {"getTask", "removeTask"} =>
       /\ last.id.k \notin {"number", "fraction", "nan"} <=> last.outcome = "InvalidInput"
       /\ last.id.k \in {"fraction", "nan"} => last.outcome = "NotFound"
  /\ \A id \in IdInputs :
       /\ id.k \notin {"number", "fraction", "nan"} <=>
            getTask(TM, id).outcome = "InvalidInput"
       /\ id.k \notin {"number", "fraction", "nan"} <=>
            removeTask(TM, id).outcome = "InvalidInput"
       /\ id.k \in {"fraction", "nan"} =>
            /\ getTask(TM, id).outcome = "NotFound"
            /\ removeTask(TM, id).outcome = "NotFound"

\* C8 witness: getTask(1.5) fails with NotFound while task 1 is stored.
WitC8_FractionIdNotFound ==
  /\ last.op = "getTask"
  /\ last.id = Frac(1)
  /\ last.outcome = "NotFound"
  /\ 1 \in StoredIds

\* A call to try: an operation and its arguments.
Try(op, id, arg, input) == [op |-> op, id |-> id, arg |-> arg, input |-> input]

\* The calls tried on every state: each operation with each of its inputs.
AllCalls ==
  {Try("createTask", Undef, Undef, input) : input \in CreateInputs}
    \cup {Try("getTask", id, Undef, NoInput) : id \in IdInputs}
    \cup {Try("findByCode", Undef, code, NoInput) : code \in CodeInputs}
    \cup {Try("updateTask", c[1], Undef, c[2]) : c \in UpdateCalls}
    \cup {Try("changeStatus", c[1], c[2], NoInput) : c \in ChangeStatusCalls}
    \cup {Try("removeTask", id, Undef, NoInput) : id \in IdInputs}
    \cup {Try("filterByStatus", Undef, status, NoInput) : status \in StatusInputs}
    \cup {Try("filterByPriority", Undef, priority, NoInput) : priority \in PriorityInputs}
    \cup {Try("searchByTitle", Undef, query, NoInput) : query \in QueryInputs}

\* The outcome of call c made on manager st at time t.
OutcomeOf(st, c, t) ==
  CASE c.op = "createTask" -> createTask(st, c.input, t).outcome
    [] c.op = "getTask" -> getTask(st, c.id).outcome
    [] c.op = "findByCode" -> findByCode(st, c.arg).outcome
    [] c.op = "updateTask" -> updateTask(st, c.id, c.input, t).outcome
    [] c.op = "changeStatus" -> changeStatus(st, c.id, c.arg, t, t).outcome
    [] c.op = "removeTask" -> removeTask(st, c.id).outcome
    [] c.op = "filterByStatus" -> filterByStatus(st, c.arg).outcome
    [] c.op = "filterByPriority" -> filterByPriority(st, c.arg).outcome
    [] c.op = "searchByTitle" -> searchByTitle(st, c.arg).outcome

\* The manager that holds one task only, with id n, as n creations with the
\* default key, each but the last followed by the removal of the task
\* created, leave it.
ManagerWithOnly(n) ==
  [tasks |-> <<Task(n, CodeText(DEFAULT_PROJECT_KEY, n), <<"B">>, Str(<<>>),
                    STATUS_TODO, PRIORITY_MEDIUM, 0, 0, Null)>>,
   nextId |-> n + 1,
   counters |-> [k \in {DEFAULT_PROJECT_KEY} |-> n]]

\* the next-id counter and the per-key counters keep their values.
ThmC10_RemoveTaskRemovesOnlyThatTask ==
  [][(CallStep /\ last'.op = "removeTask" /\ last'.outcome = "ok") =>
       /\ last'.id.n \in StoredIds
       /\ tasks' = SelectSeq(tasks, LAMBDA t : t.id # last'.id.n)
       /\ Len(tasks') = Len(tasks) - 1
       /\ nextId' = nextId
       /\ counters' = counters]_vars

\* C10 witness: a task was removed from between two others, which stay.
WitC10_RemovedFromTheMiddle ==
  /\ Returned("removeTask")
  /\ last.id = Num(2)
  /\ Len(tasks) = 2
  /\ tasks[1].id = 1
  /\ tasks[2].id = 3

\* C11: removal is permanent: for every id that removeTask has removed, in
\* every later state no stored task has that id, listTasks() holds no task
\* with it, and getTask, updateTask (with any changes), changeStatus (with
\* any status) and removeTask on it fail with NotFound.
ThmC11_RemovalIsPermanent ==
  \A r \in removed :
    /\ r \notin StoredIds
    /\ \A i \in 1..Len(listTasks(TM).list) : tasks[listTasks(TM).list[i]].id # r
    /\ getTask(TM, Num(r)).outcome = "NotFound"
    /\ removeTask(TM, Num(r)).outcome = "NotFound"
    /\ \A changes \in ChangesInputs :
         updateTask(TM, Num(r), changes, now).outcome = "NotFound"
    /\ \A newStatus \in StatusInputs :
         \A later \in now..MaxTime :
           changeStatus(TM, Num(r), newStatus, now, later).outcome = "NotFound"

\* C11 witness: getTask(1) fails after task 1 was removed and another task
\* was created since.
WitC11_GetRemovedAfterNewCreate ==
  /\ last.op = "getTask"
  /\ last.id = Num(1)
  /\ last.outcome = "NotFound"
  /\ 1 \in removed
  /\ StoredIds = {2}

\* C12: a successful updateTask, whatever the changes carry (a status, id,
\* code, createdAt or completedAt included), leaves the task's id, code,
\* status, createdAt and completedAt, every other task and both counters
\* as they were; and a stored task's status differs after a call only when
\* the call was changeStatus.
ThmC12_UpdateTaskKeepsStatusAndIdentity ==
  [][CallStep =>
       /\ (last'.op = "updateTask" /\ last'.outcome = "ok") =>
            /\ Len(tasks') = Len(tasks)
            /\ \A j \in 1..Len(tasks) : j # last'.ret => tasks'[j] = tasks[j]
            /\ tasks'[last'.ret].id = tasks[last'.ret].id
            /\ tasks'[last'.ret].code = tasks[last'.ret].code
            /\ tasks'[last'.ret].status = tasks[last'.ret].status
            /\ tasks'[last'.ret].createdAt = tasks[last'.ret].createdAt
            /\ tasks'[last'.ret].completedAt = tasks[last'.ret].completedAt
            /\ nextId' = nextId
            /\ counters' = counters
       /\ \A i \in 1..Len(tasks), j \in 1..Len(tasks') :
            (tasks[i].id = tasks'[j].id /\ tasks[i].status # tasks'[j].status)
              => last'.op = "changeStatus"]_vars

\* C12 witness: updateTask given {title, status: 'done', id, code, createdAt,
\* completedAt} has succeeded on the second of two tasks, which is still
\* todo and has the new title.
WitC12_UpdateWithStatusAndIdentityFields ==
  /\ Returned("updateTask")
  /\ last.input = ChangesWithExtras
  /\ Len(tasks) = 2
  /\ last.ret = 2
  /\ tasks[2].status = STATUS_TODO
  /\ tasks[2].title = <<"a">>

\* C13: every successful createTask returns a task with status todo,
\* completedAt null, createdAt equal to updatedAt (the time of the call),
\* the given priority or medium when none is given, the key TASK in the code
\* when no key is given, and appends it as the last element: the tasks
\* stored before stay, unchanged and in place.
ThmC13_CreateTaskAppendsFreshTodo ==
  [][(CallStep /\ last'.op = "createTask" /\ last'.outcome = "ok") =>
       LET t == tasks'[last'.ret]
           input == last'.input
       IN /\ last'.ret = Len(tasks')
          /\ Len(tasks') = Len(tasks) + 1
          /\ SubSeq(tasks', 1, Len(tasks)) = tasks
          /\ t.status = STATUS_TODO
          /\ t.completedAt = Null
          /\ t.createdAt = t.updatedAt
          /\ t.createdAt = now
          /\ t.priority = IF input.priority.k = "undefined"
                          THEN PRIORITY_MEDIUM ELSE input.priority.s
          /\ input.projectKey.k = "undefined" =>
               SubSeq(t.code, 1, 5) = <<"T", "A", "S", "K", "-">>]_vars

\* C13 witness: a creation with priority high and no key has added a second
\* task, at a later time than the first.
WitC13_SecondCreateWithPriority ==
  /\ Returned("createTask")
  /\ last.input.priority = Str(PRIORITY_HIGH)
  /\ last.input.projectKey = Undef
  /\ Len(tasks) = 2
  /\ tasks[2].createdAt = 1
  /\ tasks[1].createdAt = 0

\* What C14 asks of the three fields: a title that is a string and not
\* empty after trimming; a priority absent or one of low, medium, high; a
\* project key absent or a string that, trimmed and upper-cased, is a
\* letter followed by 1 to 9 letters or digits.
TitleIsValid(v) == v.k = "string" /\ \E i \in 1..Len(v.s) : ~IsSpace(v.s[i])

PriorityIsValid(v) ==
  v.k = "undefined"
    \/ (v.k = "string" /\ v.s \in {PRIORITY_LOW, PRIORITY_MEDIUM, PRIORITY_HIGH})

KeyIsValid(v) ==
  v.k = "undefined"
    \/ /\ v.k = "string"
       /\ LET K == ToUpperCase(Trim(v.s))
          IN /\ Len(K) \in 2..10
             /\ K[1] \in UpperSet
             /\ \A i \in 2..Len(K) : K[i] \in UpperSet \cup DigitSet

\* createTask payloads with the title, description, priority and key varied
\* together.
CreateCombinations ==
  {Obj(t, d, p, key, Undef) :
     t \in {Undef, Str(<<" ">>), Str(<<" ", "a", " ">>)},
     d \in {Undef, Num(7)},
     p \in {Undef, Str(PRIORITY_LOW), Str(<<"u", "r", "g", "e", "n", "t">>)},
     key \in {Undef, Str(<<" ", "a", "b", " ">>), Str(<<"U+FB01">>), Str(<<"a">>),
              Str(<<"1", "a">>),
              Str(<<"a", "b", "c", "d", "e", "f", "g", "h", "i", "j", "k">>)}}

\* C14: createTask fails with InvalidInput when the title, the priority or
\* the project key is invalid, and succeeds when all three are valid: for
\* the call just made and for every payload tried on the current state.
ThmC14_CreateTaskValidatesTitlePriorityKey ==
  LET valid(input) ==
        /\ TitleIsValid(input.title)
        /\ PriorityIsValid(input.priority)
        /\ KeyIsValid(input.projectKey)
  IN /\ (last.op = "createTask" /\ last.input.k = "object") =>
          last.outcome = IF valid(last.input) THEN "ok" ELSE "InvalidInput"
     /\ \A input \in CreateInputs \cup CreateCombinations :
          input.k = "object" =>
            createTask(TM, input, now).outcome =
              IF valid(input) THEN "ok" ELSE "InvalidInput"

\* C14 witness: createTask with key " ab " has succeeded on a manager that
\* already held a task.
WitC14_ValidKeyAcceptedAfterOthers ==
  /\ Returned("createTask")
  /\ last.input.projectKey = Str(<<" ", "a", "b", " ">>)
  /\ Len(tasks) = 2

\* The record now seen through a held task object is the stored task's
\* record: held task objects are the store's own. Held ids of an array.
HeldIds(array, ts) ==
  {ElementsOf(array, ts)[i] : i \in 1..Len(ElementsOf(array, ts))}

\* C15 as stated: after listTasks() has returned, no later operation on the
\* store changes the returned sequence or the field values of the task
\* records in it.
CexC15_SnapshotIsIndependentCopy ==
  [][(CallStep /\ last'.op # "listTasks") =>
       /\ ElementsOf(snapshot', tasks') = ElementsOf(snapshot, tasks)
       /\ \A i \in 1..Len(tasks), j \in 1..Len(tasks') :
            (tasks[i].id \in HeldIds(snapshot, tasks) /\ tasks'[j].id = tasks[i].id)
              => tasks'[j] = tasks[i]]_vars

\* C15 amended: the array listTasks() returned is a shallow copy: no later
\* operation changes which task objects it holds or their order, but the
\* objects are the store's own, and the field values of one of them change
\* only by an updateTask or changeStatus call on that task's id.
ThmC15_SnapshotIsShallowCopy ==
  [][(CallStep /\ last'.op # "listTasks") =>
       /\ ElementsOf(snapshot', tasks') = ElementsOf(snapshot, tasks)
       /\ \A i \in 1..Len(tasks), j \in 1..Len(tasks') :
            (/\ tasks[i].id \in HeldIds(snapshot, tasks)
             /\ tasks'[j].id = tasks[i].id
             /\ tasks'[j] # tasks[i])
              => /\ last'.op \in {"updateTask", "changeStatus"}
                 /\ last'.id = Num(tasks[i].id)]_vars

\* C15 witness: the array returned held tasks 1 and 2, and task 1 has been
\* removed from the store since.
WitC15_RemovedAfterSnapshot ==
  /\ snapshot.refs = <<1, 2>>
  /\ Returned("removeTask")
  /\ StoredIds = {2}

\* The operations that only read.
ReadOps ==
  {"listTasks", "getTask", "findByCode", "filterByStatus", "filterByPriority",
   "searchByTitle", "countByStatus", "peek"}

\* The tasks listTasks() returns on manager st, in the order returned.
Listed(st) == [i \in 1..Len(listTasks(st).list) |-> st.tasks[listTasks(st).list[i]]]

\* C16: a call of a read operation, succeeding or failing, leaves the task
\* collection, every task field, the next-id counter and every sequence
\* counter as they were; so listTasks() returns after it the sequence it
\* would have returned before it, which is the stored tasks in insertion
\* order.
ThmC16_ReadsChangeNothing ==
  [][(CallStep /\ last'.op \in ReadOps) =>
       /\ tasks' = tasks
       /\ nextId' = nextId
       /\ counters' = counters
       /\ Listed(TM') = Listed(TM)
       /\ Listed(TM') = tasks]_vars

\* C16 witness: findByCode has returned the second of two stored tasks.
WitC16_FoundSecondOfTwo ==
  /\ Returned("findByCode")
  /\ Len(tasks) = 2
  /\ last.ret = 2

\* C17: countByStatus() has exactly the keys todo, in_progress and done;
\* the count under each status s is the number of tasks filterByStatus(s)
\* returns; filterByStatus(s) returns exactly the stored tasks with status
\* s, in insertion order; and the three counts add up to the length of
\* listTasks().
ThmC17_CountsAgreeWithFilters ==
  LET counts == countByStatus(TM)
      found(s) == filterByStatus(TM, Str(s)).list
  IN /\ DOMAIN counts = {STATUS_TODO, STATUS_IN_PROGRESS, STATUS_DONE}
     /\ \A s \in {STATUS_TODO, STATUS_IN_PROGRESS, STATUS_DONE} :
          /\ filterByStatus(TM, Str(s)).outcome = "ok"
          /\ counts[s] = Len(found(s))
          /\ \A i \in 1..Len(tasks) :
               (tasks[i].status = s) <=> (\E p \in 1..Len(found(s)) : found(s)[p] = i)
          /\ \A p, q \in 1..Len(found(s)) : p < q => found(s)[p] < found(s)[q]
     /\ counts[STATUS_TODO] + counts[STATUS_IN_PROGRESS] + counts[STATUS_DONE]
          = Len(listTasks(TM).list)

\* C17 witness: countByStatus() called with a done task stored before a
\* todo task.
WitC17_CountWithTwoStatuses ==
  /\ Returned("countByStatus")
  /\ Len(tasks) = 2
  /\ tasks[1].status = STATUS_DONE
  /\ tasks[2].status = STATUS_TODO

\* A code of the form <KEY>-<digits> after trim and upper-casing: a key (a
\* letter, then 1 to 9 letters or digits), a dash, one digit or more.
CodeIsWellFormed(v) ==
  /\ v.k = "string"
  /\ LET c == ToUpperCase(Trim(v.s))
     IN \E d \in 3..(Len(c) - 1) :
          /\ c[d] = "-"
          /\ d - 1 <= 10
          /\ c[1] \in UpperSet
          /\ \A i \in 2..(d - 1) : c[i] \in UpperSet \cup DigitSet
          /\ \A i \in (d + 1)..Len(c) : c[i] \in DigitSet

\* The codes looked up on every state: the listed inputs, "TASK-01", each
\* stored code as it is and in lower case between a blank and a carriage
\* return with a line feed, and two codes written with a ligature, whose
\* upper case is "FI-1" and "AFF-1".
CodesTried ==
  CodeInputs
    \cup {Str(<<"T", "A", "S", "K", "-", "0", "1">>)}
    \cup {Str(tasks[i].code) : i \in 1..Len(tasks)}
    \cup {Str(<<" ">> \o ToLowerCase(tasks[i].code) \o <<"\r", "\n">>) : i \in 1..Len(tasks)}
    \cup {Str(<<"U+FB01", "-", "1">>), Str(<<"a", "U+FB00", "-", "1">>)}

\* C18: every stored task is returned by getTask on its id and by
\* findByCode on every code that equals its code after trim and
\* upper-casing; an integer id, or a well-formed code, that no stored task
\* holds fails with NotFound; a code not of the form <KEY>-<digits> fails
\* with InvalidInput.
ThmC18_LookupRoundTrip ==
  /\ \A i \in 1..Len(tasks) :
       /\ getTask(TM, Num(tasks[i].id)) = Returns(TM, i)
       /\ \A c \in CodesTried :
            (c.k = "string" /\ ToUpperCase(Trim(c.s)) = tasks[i].code)
              => findByCode(TM, c) = Returns(TM, i)
  /\ \A id \in IdInputs :
       (id.k = "number" /\ id.n \notin StoredIds)
         => getTask(TM, id).outcome = "NotFound"
  /\ \A c \in CodesTried :
       IF ~CodeIsWellFormed(c) THEN findByCode(TM, c).outcome = "InvalidInput"
       ELSE (\A i \in 1..Len(tasks) : tasks[i].code # ToUpperCase(Trim(c.s)))
              => findByCode(TM, c).outcome = "NotFound"

\* C18 witness: findByCode(" ab-1 ") has returned the task with code AB-1,
\* the second of two stored.
WitC18_FoundByLowerCaseCode ==
  /\ Returned("findByCode")
  /\ last.arg = Str(<<" ", "a", "b", "-", "1", " ">>)
  /\ Len(tasks) = 2
  /\ last.ret = 2
  /\ tasks[2].code = CodeText(KEY_AB, 1)

\* C19: after each successful updateTask or changeStatus the task's
\* updatedAt is the time of that call (what the clock read last during it);
\* across every call a stored task's updatedAt does not decrease and its
\* createdAt keeps its value; and no stored task's updatedAt is earlier than
\* its createdAt.
ThmC19_UpdatedAtRefreshedAndMonotonic ==
  [][CallStep =>
       /\ (last'.op \in {"updateTask", "changeStatus"} /\ last'.outcome = "ok")
            => tasks'[last'.ret].updatedAt = now'
       /\ \A i \in 1..Len(tasks), j \in 1..Len(tasks') :
            tasks'[j].id = tasks[i].id =>
              /\ tasks'[j].updatedAt >= tasks[i].updatedAt
              /\ tasks'[j].createdAt = tasks[i].createdAt
       /\ \A j \in 1..Len(tasks') : tasks'[j].updatedAt >= tasks'[j].createdAt]_vars

\* C19 witness: a changeStatus to done during which the clock moved has set
\* completedAt from its first read and updatedAt from its second, and
\* createdAt is as set at creation.
WitC19_UpdatedAfterCreation ==
  /\ Returned("changeStatus")
  /\ tasks[last.ret].createdAt = 0
  /\ tasks[last.ret].completedAt = DateAt(0)
  /\ tasks[last.ret].updatedAt = 1
  /\ now = 1

\* A key the generator takes: a string that, trimmed and upper-cased, is a
\* letter followed by 1 to 9 letters or digits.
KeyStringIsValid(v) == v.k = "string" /\ KeyIsValid(v)

\* C20: on one CodeGenerator, after any next and peek calls, peek(key)
\* returns the number n of the code "K-n" that next last returned for the
\* normalized key K (0 when it returned none); keys that differ only in
\* case or surrounding blanks give the same number; and next or peek with
\* an invalid key fails with InvalidInput, every counter left as it was.
ThmC20_PeekReturnsLastIssued ==
  /\ \A key \in GeneratorKeys :
       LET K == ToUpperCase(Trim(key.s))
           peeked == CodeGenerator_peek(counters, key)
           taken == CodeGenerator_next(counters, key)
       IN IF KeyStringIsValid(key)
          THEN /\ ~peeked.err
               /\ ~taken.err
               /\ IF K \in DOMAIN lastCode
                  THEN lastCode[K] = CodeText(K, peeked.value)
                  ELSE peeked.value = 0
               /\ \A spelling \in GeneratorKeys :
                    (spelling.k = "string" /\ ToUpperCase(Trim(spelling.s)) = K)
                      => CodeGenerator_peek(counters, spelling) = peeked
          ELSE /\ peeked.err
               /\ taken.err
               /\ taken.counters = counters
  /\ (last.op = "peek" /\ last.outcome = "ok" /\ last.ret > 0) =>
       lastCode[ToUpperCase(Trim(last.arg.s))]
         = CodeText(ToUpperCase(Trim(last.arg.s)), last.ret)
  /\ (last.op \in {"next", "peek"} /\ ~KeyStringIsValid(last.arg)) =>
       last.outcome = "InvalidInput"

\* C20 witness: peek("AB") has returned 2 after next was called for " ab "
\* and "AB" and for another key.
WitC20_PeekAfterTwoSpellings ==
  /\ last.op = "peek"
  /\ last.arg = Str(KEY_AB)
  /\ last.outcome = "ok"
  /\ last.ret = 2
  /\ DEFAULT_PROJECT_KEY \in DOMAIN lastCode

\* ------------------------------------------------------ two instances

\* What call c made on manager st gives when its first read of the clock
\* gives t and its second gives later.
ResultOf(st, c, t, later) ==
  CASE c.op = "createTask" -> createTask(st, c.input, t)
    [] c.op = "listTasks" -> listTasks(st)
    [] c.op = "getTask" -> getTask(st, c.id)
    [] c.op = "findByCode" -> findByCode(st, c.arg)
    [] c.op = "updateTask" -> updateTask(st, c.id, c.input, t)
    [] c.op = "changeStatus" -> changeStatus(st, c.id, c.arg, t, later)
    [] c.op = "removeTask" -> removeTask(st, c.id)
    [] c.op = "filterByStatus" -> filterByStatus(st, c.arg)
    [] c.op = "filterByPriority" -> filterByPriority(st, c.arg)
    [] c.op = "searchByTitle" -> searchByTitle(st, c.arg)
    [] c.op = "countByStatus" -> ReturnsList(st, <<>>)

\* The calls made on either instance: every operation, createTask with the
\* default key, with key " ab " and with no title.
InstanceCalls ==
  {Try("createTask", Undef, Undef, Obj(Str(<<"B">>), Undef, Undef, key, Undef)) :
     key \in {Undef, Str(<<" ", "a", "b", " ">>)}}
    \cup {Try("createTask", Undef, Undef, Obj(Undef, Undef, Undef, Undef, Undef)),
          Try("listTasks", Undef, Undef, NoInput),
          Try("getTask", Num(1), Undef, NoInput),
          Try("findByCode", Undef, Str(<<"T", "A", "S", "K", "-", "1">>), NoInput),
          Try("updateTask", Num(1), Undef,
              Obj(Str(<<" ", "a", " ">>), Undef, Str(PRIORITY_HIGH), Undef, Undef)),
          Try("changeStatus", Num(1), Str(STATUS_DONE), NoInput),
          Try("removeTask", Num(1), Undef, NoInput),
          Try("filterByStatus", Undef, Str(STATUS_TODO), NoInput),
          Try("filterByPriority", Undef, Str(PRIORITY_HIGH), NoInput),
          Try("searchByTitle", Undef, Str(<<"A">>), NoInput),
          Try("countByStatus", Undef, Undef, NoInput)}

\* The record of a call with the instance it was made on.
CallOn(instance, c, r) ==
  [on |-> instance, op |-> c.op, id |-> c.id, arg |-> c.arg, input |-> c.input,
   outcome |-> r.outcome, ret |-> r.ret, list |-> r.list]

\* What a call on the manager at `this` that gave r gives with the heap it
\* leaves.
LeftAt(h, this, r) ==
  [outcome |-> r.outcome, ret |-> r.ret, list |-> r.list,
   heap |-> Written(h, this, r.st)]

\* Call c on the manager at `this`: what it gives, and the heap it leaves.
CallAt(h, this, c, t, later) ==
  LeftAt(h, this, ResultOf(ManagerAt(h, this), c, t, later))

\* tasks, nextId and counters show the first instance as the heap has it.
ShowsFirst(h) ==
  /\ tasks' = ManagerAt(h, first).tasks
  /\ nextId' = ManagerAt(h, first).nextId
  /\ counters' = ManagerAt(h, first).counters

\* A call on the first instance. (issued, removed, lastCode and snapshot
\* follow the single-instance runs only.)
CallOnFirst ==
  /\ steps < MaxSteps
  /\ \E c \in InstanceCalls, later \in now..MaxTime :
       \E r \in {CallAt(heap, first, c, now, later)} :
          /\ later # now =>
               (c.op = "changeStatus" /\ r.outcome = "ok" /\ ReadsClockTwice(c.arg))
          /\ heap' = r.heap
          /\ ShowsFirst(r.heap)
          /\ last' = CallOn("first", c, r)
          /\ created' = IF c.op = "createTask" /\ r.outcome = "ok"
                        THEN created + 1 ELSE created
          /\ now' = later
  /\ steps' = steps + 1
  /\ UNCHANGED <<issued, removed, lastCode, snapshot, other, otherCreated>>

\* A call on the second instance.
CallOnOther ==
  /\ steps < MaxSteps
  /\ \E c \in InstanceCalls, later \in now..MaxTime :
       \E r \in {CallAt(heap, other, c, now, later)} :
          /\ later # now =>
               (c.op = "changeStatus" /\ r.outcome = "ok" /\ ReadsClockTwice(c.arg))
          /\ heap' = r.heap
          /\ ShowsFirst(r.heap)
          /\ last' = CallOn("other", c, r)
          /\ otherCreated' = IF c.op = "createTask" /\ r.outcome = "ok"
                             THEN otherCreated + 1 ELSE otherCreated
          /\ now' = later
  /\ steps' = steps + 1
  /\ UNCHANGED <<created, issued, removed, lastCode, snapshot, other>>

\* new TodoManager(): the second instance is replaced by a new one.
ConstructOther ==
  /\ steps < MaxSteps
  /\ \E made \in {TodoManager_constructor(heap)} :
        /\ heap' = made.heap
        /\ other' = made.ref
        /\ ShowsFirst(made.heap)
        /\ last' = CallOn("other", Try("new", Undef, Undef, NoInput),
                          Returns(ManagerAt(made.heap, made.ref), 0))
  /\ otherCreated' = 0
  /\ steps' = steps + 1
  /\ UNCHANGED <<now, created, issued, removed, lastCode, snapshot>>

TwoInstancesStep == CallOnFirst \/ CallOnOther \/ ConstructOther

SpecTwoInstances == Init /\ [][TwoInstancesStep]_vars

\* On the manager at `this` every createTask that succeeds gives id 1 and
\* code "K-1".
IssuesFirst(h, this) ==
  \A input \in CreateInputs :
    LET r == CallAt(h, this, Try("createTask", Undef, Undef, input), now, now)
        K == IF input.projectKey.k = "undefined" THEN DEFAULT_PROJECT_KEY
             ELSE ToUpperCase(Trim(input.projectKey.s))
        task == ManagerAt(r.heap, this).tasks[r.ret]
    IN r.outcome = "ok" =>
         /\ task.id = 1
         /\ task.code = CodeText(K, 1)

\* The objects the operations of the manager at `this` reach.
Reached(h, this) ==
  {this, h[this]._tasks, h[this]._codes, h[h[this]._codes].counters}
    \cup {h[h[this]._tasks].elems[i] : i \in 1..Len(h[h[this]._tasks].elems)}

\* C21: two instances are independent: they share no object; a call on one
\* leaves the tasks, the next-id counter and the sequence counters of the
\* other as they were, and so does the construction of another instance;
\* and an instance on which no createTask has succeeded yet gives id 1 and
\* code "K-1", whatever the other instance has issued.
ThmC21_InstancesAreIndependent ==
  /\ [](/\ Reached(heap, first) \cap Reached(heap, other) = {}
        /\ created = 0 => IssuesFirst(heap, first)
        /\ otherCreated = 0 => IssuesFirst(heap, other))
  /\ [][steps' = steps + 1 =>
          /\ last'.on = "first" =>
                /\ other' = other
                /\ ManagerAt(heap', other) = ManagerAt(heap, other)
          /\ last'.on = "other" =>
                ManagerAt(heap', first) = ManagerAt(heap, first)]_vars

\* C21 witness: an instance constructed after the first had issued two ids
\* and two codes has issued id 1 and code TASK-1.
WitC21_OtherIssuesOneAfterFirstIssuedTwo ==
  /\ created = 2
  /\ ManagerAt(heap, first).nextId = 3
  /\ CounterOf(ManagerAt(heap, first).counters, DEFAULT_PROJECT_KEY) = 2
  /\ other # OtherConstructed.ref
  /\ last.on = "other"
  /\ last.op = "createTask"
  /\ last.outcome = "ok"
  /\ Len(ManagerAt(heap, other).tasks) = 1
  /\ ManagerAt(heap, other).tasks[1].id = 1
  /\ ManagerAt(heap, other).tasks[1].code = CodeText(DEFAULT_PROJECT_KEY, 1)
  /\ otherCreated = 1

\* The operations C22 is about.
OpsFailingCleanly ==
  {"createTask", "changeStatus", "removeTask", "getTask", "findByCode",
   "filterByStatus", "filterByPriority", "searchByTitle"}

\* C22: a call of createTask, changeStatus, removeTask, getTask, findByCode,
\* filterByStatus, filterByPriority or searchByTitle that fails (InvalidInput
\* or NotFound) leaves the tasks, the next-id counter and the sequence
\* counters as they were, so that every createTask made after it gives what
\* it would have given before it.
ThmC22_FailedCallsLeaveStore ==
  [][(/\ CallStep
      /\ last'.op \in OpsFailingCleanly
      /\ last'.outcome \in {"InvalidInput", "NotFound"}) =>
       /\ tasks' = tasks
       /\ nextId' = nextId
       /\ counters' = counters
       /\ \A key \in {Undef, Str(<<" ", "a", "b", " ">>)} :
            LET input == Obj(Str(<<"B">>), Undef, Undef, key, Undef)
                before == createTask(TM, input, now)
                after == createTask(TM', input, now)
            IN /\ after.outcome = "ok"
               /\ after.st.tasks[after.ret].id = before.st.tasks[before.ret].id
               /\ after.st.tasks[after.ret].code = before.st.tasks[before.ret].code]_vars

\* C22 witness: createTask with the key "1a" was rejected on a manager that
\* holds one task and has issued one id.
WitC22_RejectedCreateAfterOne ==
  /\ last.op = "createTask"
  /\ last.outcome = "InvalidInput"
  /\ last.input.projectKey = Str(<<"1", "a">>)
  /\ Len(tasks) = 1
  /\ nextId = 2

\* The sum of f over the keys in S.
RECURSIVE SumOver(_, _)
SumOver(f, S) ==
  IF S = {} THEN 0
  ELSE LET k == CHOOSE x \in S : TRUE IN f[k] + SumOver(f, S \ {k})

\* C23: the next-id counter is 1 plus the number of successful createTask
\* calls so far and 1 plus the sum of the per-key sequence counters; every
\* stored task's id is below it; every stored task's code is "K-n" for a
\* key K with a counter and an n from 1 to that counter; and the stored
\* tasks are in strictly increasing id order.
ThmC23_CountersBoundStoredTasks ==
  /\ nextId = 1 + created
  /\ nextId = 1 + SumOver(counters, DOMAIN counters)
  /\ \A i \in 1..Len(tasks) :
       /\ tasks[i].id >= 1
       /\ tasks[i].id < nextId
       /\ \E K \in DOMAIN counters : \E n \in 1..counters[K] :
            tasks[i].code = CodeText(K, n)
  /\ \A i, j \in 1..Len(tasks) : i < j => tasks[i].id < tasks[j].id

\* C23 witness: tasks 1 and 3 are stored, task 2 was removed, and two keys
\* have counters.
WitC23_GapAfterRemovalTwoKeys ==
  /\ Len(tasks) = 2
  /\ tasks[1].id = 1
  /\ tasks[2].id = 3
  /\ Cardinality(DOMAIN counters) = 2
  /\ Returned("removeTask")

====
